---- MODULE Spec2Model ----
(***************************************************************************)
(* Model of the clipboard-copy extension (src/src/extension.ts, the        *)
(* version of lines 119-970): pattern validation, ignore-file resolution,  *)
(* directory walk with de-duplication, and content aggregation.            *)
(*                                                                         *)
(* Strings are sequences of one-character strings, so that formatting,     *)
(* splitting, trimming and prefix tests are computed, not assumed.         *)
(***************************************************************************)
EXTENDS Integers, Sequences, FiniteSets, TLC

VARIABLES
    \* readFilesContent
    files,        \* the batch handed to readFilesContent (relative paths)
    rpc,          \* "init" | "reading" | "done"
    pending,      \* indices of reads issued and not yet completed
    results,      \* index -> result of the read callback (or NoResult)
    delivered,    \* index -> what the filesystem answered to the read
    outcome,      \* the returned {content, errors, failedFiles} (or NoOutcome)
    \* getFilePatterns
    allowedFilePatterns,  \* the configured allow-pattern string (or None)
    gpc,                  \* "idle" | "init" | "prompt" | "done"
    boxValue,             \* the text in the input box
    boxMessage,           \* the validation message the input box shows ("" if none)
    patternSet,           \* what getFilePatterns returned (or None)
    shown,                \* the messages shown to the user, in order
    \* buildExcludePattern
    respectVSCodeExcludes,   \* the respectVSCodeExcludes setting
    filesExclude,            \* the files.exclude setting: entries [pattern, enabled] (or None)
    searchExclude,           \* the search.exclude setting (or None)
    customExcludePatterns,   \* the customExcludePatterns setting (a string)
    xpc,                     \* "idle" | "init" | "done" | "thrown"
    hostThrown,              \* the lookup of getVSCodeExcludePatterns that threw in the call
    allPatterns,             \* buildExcludePattern's merged list when it returns
    excludePattern,          \* what buildExcludePattern returned (or None)
    \* findAllGitignoreFiles, filterFilesWithGitignore
    gitignoreFiles,   \* the ignore-file paths the enumeration returned
    ipc,              \* "idle" | "init" | "reading" | "done"
    giPending,        \* indices of ignore-file reads in flight
    giRead,           \* indices of the ignore-files whose read was issued
    giDelivered,      \* index -> what the filesystem answered to the read
    gitignoreMap,     \* directory path -> ignore-file text
    candidates,       \* the files handed to filterFilesWithGitignore
    ignoreCache,      \* directory path -> compiled matcher, when the filter returns
    filtered,         \* what filterFilesWithGitignore returned
    \* copyContentToClipboard, processFoldersContent, processGlobPatterns
    selectedFiles,      \* the directly selected files
    selectedFolders,    \* the selected folders
    filePatterns,       \* the pattern list getFilePatterns returned
    respectGitignore,   \* the respectGitignore setting
    isRecursive,        \* the answer of the quick pick
    wpc,                \* "idle" | "init" | "pick" | "cancelled" | "walking" | "merged" | "final"
    walks,              \* one processGlobPatterns call per selected folder
    folderFiles,        \* what processFoldersContent returned
    allFilesToProcess,  \* filtered direct selections, then the folder files too
    finalFiles,         \* the final list
    \* matchesPattern, filterFilesByPatterns
    mPath,        \* the path handed to matchesPattern
    mPatterns,    \* the pattern list handed to it
    mpc,          \* "idle" | "init" | "matched" | "filtered"
    mResult,      \* how matchesPattern ended: "true" | "false" | "throws" ("" before)
    mKept,        \* what filterFilesByPatterns returned for the path alone (None: it threw)
    \* separateFilesAndFolders
    uris,         \* the resources handed to separateFilesAndFolders
    spc,          \* "idle" | "loop" | "done"
    stats,        \* what stat answered for the resources visited so far, in order
    sepFiles,     \* the list `files`
    sepFolders,   \* the list `folders`
    \* copyFileToClipboard, copyFolderToClipboard, copyContentToClipboard
    command,      \* the command that runs ("" when none does)
    cpc,          \* "idle" | "init" | "stat" | "patterns" | "pick" | "walk" | "read" | "write" | "ended"
    notices,      \* the messages the command itself has shown, in order
    clipboard     \* the text written to the clipboard (None: nothing written)

readVars == <<files, rpc, pending, results, delivered, outcome>>
patVars == <<allowedFilePatterns, gpc, boxValue, boxMessage, patternSet, shown>>

exVars == <<respectVSCodeExcludes, filesExclude, searchExclude, customExcludePatterns,
            xpc, hostThrown, allPatterns, excludePattern>>

ignVars == <<gitignoreFiles, ipc, giPending, giRead, giDelivered, gitignoreMap, candidates,
             ignoreCache, filtered>>

walkVars == <<selectedFiles, selectedFolders, filePatterns, respectGitignore, isRecursive,
              wpc, walks, folderFiles, allFilesToProcess, finalFiles>>

matchVars == <<mPath, mPatterns, mpc, mResult, mKept>>
sepVars == <<uris, spc, stats, sepFiles, sepFolders>>
cmdVars == <<command, cpc, notices, clipboard>>

vars == <<readVars, patVars, exVars, ignVars, walkVars, matchVars, sepVars, cmdVars>>

notRead == <<patVars, exVars, ignVars, walkVars, matchVars, sepVars, cmdVars>>
notPat == <<readVars, exVars, ignVars, walkVars, matchVars, sepVars, cmdVars>>
notEx == <<readVars, patVars, ignVars, walkVars, matchVars, sepVars, cmdVars>>
notIgn == <<readVars, patVars, exVars, walkVars, matchVars, sepVars, cmdVars>>
notWalk == <<readVars, patVars, exVars, ignVars, matchVars, sepVars, cmdVars>>
notWalkCmd == <<readVars, patVars, exVars, ignVars, matchVars, sepVars>>
notMatch == <<readVars, patVars, exVars, ignVars, walkVars, sepVars, cmdVars>>
notSep == <<readVars, patVars, exVars, ignVars, walkVars, matchVars, cmdVars>>

----------------------------------------------------------------------------
(* Strings *)

RECURSIVE Flatten(_)
\* Array.prototype.join('') of a sequence of strings.
Flatten(ss) ==
    IF ss = <<>> THEN <<>> ELSE Head(ss) \o Flatten(Tail(ss))

\* results.map(r => r.content)
Contents(rs) == [i \in 1..Len(rs) |-> rs[i].content]

\* results.map(r => r.fileName)
FileNames(rs) == [i \in 1..Len(rs) |-> rs[i].fileName]

\* The characters of a string.
Chars(s) == {s[i] : i \in 1..Len(s)}

\* String.prototype.startsWith
StartsWith(s, prefix) ==
    /\ Len(prefix) <= Len(s)
    /\ SubSeq(s, 1, Len(prefix)) = prefix

\* String.prototype.includes
Includes(s, sub) ==
    \E k \in 1..(Len(s) + 1) :
        /\ k + Len(sub) - 1 <= Len(s)
        /\ SubSeq(s, k, k + Len(sub) - 1) = sub

\* A character is a string that holds it. A character the text of a module
\* cannot hold is written by its code point, as in "U+2028"; "GRAVE" stands for
\* the grave accent U+0060.

\* The line terminators of ECMAScript: line feed, carriage return, line
\* separator and paragraph separator.
LineTerminators == {"\n", "\r", "U+2028", "U+2029"}

\* The characters String.prototype.trim strips: the line terminators and the
\* white space of ECMAScript (the space, the tab, the form feed, the vertical
\* tab, the no-break space U+00A0, the byte order mark U+FEFF and the other
\* space separators).
WhiteSpace ==
    LineTerminators
    \cup {" ", "\t", "\f", "", " ", "﻿", " "}
    \cup {"U+2000", "U+2001", "U+2002", "U+2003", "U+2004", "U+2005", "U+2006", "U+2007",
          "U+2008", "U+2009", "U+200A", "U+202F", "U+205F", "U+3000"}

\* String.prototype.trimStart, trimEnd, trim
RECURSIVE TrimStart(_)
TrimStart(s) ==
    IF s # <<>> /\ Head(s) \in WhiteSpace THEN TrimStart(Tail(s)) ELSE s

RECURSIVE TrimEnd(_)
TrimEnd(s) ==
    IF s # <<>> /\ s[Len(s)] \in WhiteSpace THEN TrimEnd(SubSeq(s, 1, Len(s) - 1)) ELSE s

Trim(s) == TrimEnd(TrimStart(s))

\* The index of the first occurrence of character c in s, or 0.
RECURSIVE IndexOfFrom(_, _, _)
IndexOfFrom(s, c, k) ==
    IF k > Len(s) THEN 0
    ELSE IF s[k] = c THEN k
    ELSE IndexOfFrom(s, c, k + 1)

\* String.prototype.split(c) for a one-character separator.
RECURSIVE Split(_, _)
Split(s, c) ==
    LET k == IndexOfFrom(s, c, 1)
    IN  IF k = 0 THEN <<s>>
        ELSE <<SubSeq(s, 1, k - 1)>> \o Split(SubSeq(s, k + 1, Len(s)), c)

\* parts.map(p => p.trim())
TrimAll(parts) == [i \in 1..Len(parts) |-> Trim(parts[i])]

\* Array.prototype.join(c) for a one-character separator.
RECURSIVE Join(_, _)
Join(parts, c) ==
    IF parts = <<>> THEN <<>>
    ELSE IF Len(parts) = 1 THEN parts[1]
    ELSE parts[1] \o <<c>> \o Join(Tail(parts), c)

Digits == {"0", "1", "2", "3", "4", "5", "6", "7", "8", "9"}

\* The ASCII letters.
UpperSeq ==
    <<"A", "B", "C", "D", "E", "F", "G", "H", "I", "J", "K", "L", "M",
      "N", "O", "P", "Q", "R", "S", "T", "U", "V", "W", "X", "Y", "Z">>
LowerSeq ==
    <<"a", "b", "c", "d", "e", "f", "g", "h", "i", "j", "k", "l", "m",
      "n", "o", "p", "q", "r", "s", "t", "u", "v", "w", "x", "y", "z">>

\* The printable ASCII characters in code order, from the space (code 32) on.
ASCII_ORDER ==
    <<" ", "!", "\"", "#", "$", "%", "&", "'", "(", ")", "*", "+", ",", "-", ".", "/",
      "0", "1", "2", "3", "4", "5", "6", "7", "8", "9", ":", ";", "<", "=", ">", "?",
      "@", "A", "B", "C", "D", "E", "F", "G", "H", "I", "J", "K", "L", "M", "N", "O",
      "P", "Q", "R", "S", "T", "U", "V", "W", "X", "Y", "Z", "[", "\\", "]", "^", "_",
      "GRAVE", "a", "b", "c", "d", "e", "f", "g", "h", "i", "j", "k", "l", "m", "n", "o",
      "p", "q", "r", "s", "t", "u", "v", "w", "x", "y", "z", "{", "|", "}", "~">>

\* The characters of Latin-1 from U+00A1 on, in code order.
LATIN1_ORDER ==
    <<"¡", "¢", "£", "¤", "¥", "¦", "§", "¨", "©", "ª", "«", "¬", "­", "®", "¯", "°",
      "±", "²", "³", "´", "µ", "¶", "·", "¸", "¹", "º", "»", "¼", "½", "¾", "¿", "À",
      "Á", "Â", "Ã", "Ä", "Å", "Æ", "Ç", "È", "É", "Ê", "Ë", "Ì", "Í", "Î", "Ï", "Ð",
      "Ñ", "Ò", "Ó", "Ô", "Õ", "Ö", "×", "Ø", "Ù", "Ú", "Û", "Ü", "Ý", "Þ", "ß", "à",
      "á", "â", "ã", "ä", "å", "æ", "ç", "è", "é", "ê", "ë", "ì", "í", "î", "ï", "ð",
      "ñ", "ò", "ó", "ô", "õ", "ö", "÷", "ø", "ù", "ú", "û", "ü", "ý", "þ", "ÿ">>

\* The code units of the other characters of the model: control characters,
\* white space, and the letters outside Latin-1 that the case mappings of the
\* letters of ASCII and Latin-1 lead to or come from (the capital and the small
\* mu, the capital sharp s, the dotted capital I, the dotless i, the combining
\* dot above, the long s, the capital y with diaeresis, the kelvin sign).
OtherCodes ==
    << <<"\t", 9>>, <<"\n", 10>>, <<"", 11>>, <<"\f", 12>>, <<"\r", 13>>, <<" ", 160>>,
       <<"U+0130", 304>>, <<"U+0131", 305>>, <<"U+0178", 376>>, <<"U+017F", 383>>,
       <<"U+0307", 775>>, <<"Μ", 924>>, <<"μ", 956>>, <<" ", 5760>>, <<"ẞ", 7838>>,
       <<"U+2000", 8192>>, <<"U+2001", 8193>>, <<"U+2002", 8194>>, <<"U+2003", 8195>>,
       <<"U+2004", 8196>>, <<"U+2005", 8197>>, <<"U+2006", 8198>>, <<"U+2007", 8199>>,
       <<"U+2008", 8200>>, <<"U+2009", 8201>>, <<"U+200A", 8202>>, <<"U+2028", 8232>>,
       <<"U+2029", 8233>>, <<"U+202F", 8239>>, <<"U+205F", 8287>>, <<"U+212A", 8490>>,
       <<"U+3000", 12288>>, <<"﻿", 65279>> >>

\* The characters of the model.
AllChars ==
    Chars(ASCII_ORDER) \cup Chars(LATIN1_ORDER)
    \cup {OtherCodes[i][1] : i \in 1..Len(OtherCodes)}

\* String.prototype.charCodeAt(0) of a character: CharCode[c].
CharCode ==
    [c \in AllChars |->
        IF c \in Chars(ASCII_ORDER)
        THEN 31 + CHOOSE i \in 1..Len(ASCII_ORDER) : ASCII_ORDER[i] = c
        ELSE IF c \in Chars(LATIN1_ORDER)
        THEN 160 + CHOOSE i \in 1..Len(LATIN1_ORDER) : LATIN1_ORDER[i] = c
        ELSE OtherCodes[CHOOSE i \in 1..Len(OtherCodes) : OtherCodes[i][1] = c][2]]

\* String.prototype.toLowerCase of one character, LowerOf[c]: a string, which
\* for the dotted capital I has two characters. The capital letters of Latin-1
\* are U+00C0 to U+00DE without the multiplication sign, and the small letter
\* is 32 code units above the capital.
LowerOf ==
    [c \in AllChars |->
        IF c \in Chars(UpperSeq)
        THEN <<LowerSeq[CHOOSE i \in 1..Len(UpperSeq) : UpperSeq[i] = c]>>
        ELSE IF CharCode[c] \in 192..222 /\ c # "×" THEN <<LATIN1_ORDER[CharCode[c] - 160 + 32]>>
        ELSE IF c = "U+0130" THEN <<"i", "U+0307">>
        ELSE IF c = "U+0178" THEN <<"ÿ">>
        ELSE IF c = "Μ" THEN <<"μ">>
        ELSE IF c = "ẞ" THEN <<"ß">>
        ELSE IF c = "U+212A" THEN <<"k">>
        ELSE <<c>>]

\* String.prototype.toLowerCase
ToLowerCase(s) == Flatten([i \in 1..Len(s) |-> LowerOf[s[i]]])

\* String.prototype.toUpperCase of one character, UpperOf[c]: a string, which
\* for the sharp s has two characters. The small letters of Latin-1 with a
\* capital in Latin-1 are U+00E0 to U+00FE without the division sign.
UpperOf ==
    [c \in AllChars |->
        IF c \in Chars(LowerSeq)
        THEN <<UpperSeq[CHOOSE i \in 1..Len(LowerSeq) : LowerSeq[i] = c]>>
        ELSE IF CharCode[c] \in 224..254 /\ c # "÷" THEN <<LATIN1_ORDER[CharCode[c] - 160 - 32]>>
        ELSE IF c = "ß" THEN <<"S", "S">>
        ELSE IF c = "ÿ" THEN <<"U+0178">>
        ELSE IF c \in {"µ", "μ"} THEN <<"Μ">>
        ELSE IF c = "U+0131" THEN <<"I">>
        ELSE IF c = "U+017F" THEN <<"S">>
        ELSE <<c>>]

\* Canonicalize of a regular expression with flag `i` and without flag `u`
\* (ECMAScript 22.2.5.6), Canonicalize[c]: the upper-case form of the character
\* when that is one character, and not an ASCII character for a character that
\* is not ASCII; the character itself otherwise. Two characters are the same to
\* the expression when their canonical forms are equal.
Canonicalize ==
    [c \in AllChars |->
        LET u == UpperOf[c]
        IN  IF Len(u) # 1 THEN c
            ELSE IF CharCode[c] >= 128 /\ CharCode[u[1]] < 128 THEN c
            ELSE u[1]]

\* The characters a regular expression with flag `i` takes for the character:
\* those of the same canonical form.
CaseVariants == [c \in AllChars |-> {x \in AllChars : Canonicalize[x] = Canonicalize[c]}]

----------------------------------------------------------------------------
(* path (POSIX): dirname, relative, join, on absolute normalized paths *)

\* path.sep
SEP == "/"

\* path.dirname
Dirname(p) ==
    LET parts == Split(p, SEP)
    IN  IF Len(parts) <= 1 THEN <<".">>
        ELSE LET dir == Join(SubSeq(parts, 1, Len(parts) - 1), SEP)
             IN  IF dir = <<>> THEN <<SEP>> ELSE dir

\* The number of leading components two component lists share.
RECURSIVE CommonPrefixLen(_, _)
CommonPrefixLen(a, b) ==
    IF a = <<>> \/ b = <<>> \/ Head(a) # Head(b) THEN 0
    ELSE 1 + CommonPrefixLen(Tail(a), Tail(b))

\* path.relative(from, to)
PathRelative(from, to) ==
    LET f == SelectSeq(Split(from, SEP), LAMBDA part : part # <<>>)
        t == SelectSeq(Split(to, SEP), LAMBDA part : part # <<>>)
        c == CommonPrefixLen(f, t)
        up == [i \in 1..(Len(f) - c) |-> <<".", ".">>]
    IN  Join(up \o SubSeq(t, c + 1, Len(t)), SEP)

\* path.join(base, part) for one path component.
PathJoin(base, part) ==
    IF part = <<".", ".">> THEN Dirname(base)
    ELSE IF part = <<".">> \/ part = <<>> THEN base
    ELSE IF base = <<SEP>> THEN base \o part
    ELSE base \o <<SEP>> \o part

\* An optional value: undefined, or a value.
None == [some |-> FALSE, v |-> <<>>]
Some(x) == [some |-> TRUE, v |-> x]

\* The sequences over S of length at most n.
SeqsUpTo(S, n) == UNION {[1..k -> S] : k \in 0..n}

----------------------------------------------------------------------------
(* The names, paths and texts the runs of the model are made of *)

\* The absolute path with the given components.
AbsPath(comps) == Flatten([i \in 1..Len(comps) |-> <<SEP>> \o comps[i]])

\* Names of directories and files.
Name ==
    [w |-> <<"w">>, w2 |-> <<"w", "2">>, x |-> <<"x">>,
     sub |-> <<"s", "ü", "b">>, upperSub |-> <<"S", "Ü", "B">>,
     other |-> <<"o", "t", "h", "e", "r">>, build |-> <<"b", "u", "i", "l", "d">>,
     any |-> <<"a", "n", "y">>,
     xTmp |-> <<"x", ".", "t", "m", "p">>, yLog |-> <<"y", ".", "l", "o", "g">>,
     zTmp |-> <<"z", ".", "t", "m", "p">>, oJs |-> <<"o", ".", "j", "s">>,
     aJs |-> <<"a", ".", "j", "s">>, aTs |-> <<"a", ".", "t", "s">>,
     bPy |-> <<"b", ".", "p", "y">>, cTs |-> <<"c", ".", "t", "s">>,
     gitignore |-> <<".", "g", "i", "t", "i", "g", "n", "o", "r", "e">>]

\* workspaceFolder.uri.fsPath
WS_ROOT == AbsPath(<<Name.w>>)

\* Directories: a subdirectory of the workspace root, named `süb` and called
\* `sub` below, and a directory that lies in no workspace folder.
Dir == [sub |-> AbsPath(<<Name.w, Name.sub>>), outside |-> AbsPath(<<Name.x>>)]

\* The files of the workspace; the path of upperSubX differs from that of subX
\* in letter case only, in two ASCII letters and in one letter of Latin-1.
File ==
    [subX |-> AbsPath(<<Name.w, Name.sub, Name.xTmp>>),
     subY |-> AbsPath(<<Name.w, Name.sub, Name.yLog>>),
     otherZ |-> AbsPath(<<Name.w, Name.other, Name.zTmp>>),
     y |-> AbsPath(<<Name.w, Name.yLog>>),
     buildO |-> AbsPath(<<Name.w, Name.build, Name.oJs>>),
     anyBuildO |-> AbsPath(<<Name.w, Name.any, Name.build, Name.oJs>>),
     subBuildO |-> AbsPath(<<Name.w, Name.sub, Name.build, Name.oJs>>),
     subAnyBuildO |-> AbsPath(<<Name.w, Name.sub, Name.any, Name.build, Name.oJs>>),
     upperSubX |-> AbsPath(<<Name.w, Name.upperSub, Name.xTmp>>),
     aJs |-> AbsPath(<<Name.w, Name.aJs>>),
     aTs |-> AbsPath(<<Name.w, Name.aTs>>),
     outsideX |-> AbsPath(<<Name.x, Name.xTmp>>)]

\* The ignore-files an enumeration can return: at the root, in a subdirectory,
\* in a sibling directory of the root whose name starts with the root's name,
\* and in an unrelated directory.
IgnoreFile ==
    [root |-> AbsPath(<<Name.w, Name.gitignore>>),
     sub |-> AbsPath(<<Name.w, Name.sub, Name.gitignore>>),
     sibling |-> AbsPath(<<Name.w2, Name.gitignore>>),
     outside |-> AbsPath(<<Name.x, Name.gitignore>>)]

\* Ignore-file texts.
Rule ==
    [log |-> <<"*", ".", "l", "o", "g">>,
     tmp |-> <<"*", ".", "t", "m", "p">>,
     build |-> <<"/">> \o Name.build,
     yLog |-> <<"/">> \o Name.yLog,
     tmpNotX |-> <<"*", ".", "t", "m", "p", "\n", "!">> \o Name.xTmp,
     logCrlf |-> <<"*", ".", "l", "o", "g", " ", "\r", "\n", "\\", "#", "a", "\r", "\n">>]

\* Pattern strings: those of the documentation, patterns of the allow list, and
\* patterns of the host's exclude settings.
Glob ==
    [braceJsTs |-> <<"*", ".", "{", "j", "s", ",", "t", "s", "}">>,
     advanced |-> <<"*", ".", "{", "j", "s", ",", "t", "s", "}", ",",
                    "t", "e", "s", "t", "*", ".", "p", "y", ",",
                    "s", "r", "c", "/", "*", "*", "/", "*", ".", "m", "d">>,
     testDigitJs |-> <<"t", "e", "s", "t", "[", "0", "-", "9", "]", ".", "j", "s">>,
     starCh |-> <<"*", ".", "[", "c", "h", "]">>,
     parentDir |-> <<".", ".", "/", "*", ".", "j", "s">>,
     spaced |-> <<"*", ".", "j", "s", ",", " ", "*", ".", "t", "s">>,
     starJs |-> <<"*", ".", "j", "s">>,
     oStar |-> <<"o", ".", "*">>,
     starTmp |-> <<"*", ".", "t", "m", "p">>,
     xStar |-> <<"x", ".", "*">>,
     starLog |-> <<"*", ".", "l", "o", "g">>,
     hostA |-> <<"a">>,
     hostStarA |-> <<"*", ".", "a">>,
     sourceCode |-> <<"*", ".", "p", "y", ",", "*", ".", "j", "s", ",", "*", ".", "t",
                      "s", ",", "*", ".", "j", "s", "x", ",", "*", ".", "t", "s", "x">>,
     documentation |-> <<"*", ".", "m", "d", ",", "*", ".", "t", "x", "t", ",", "*",
                         ".", "r", "s", "t">>,
     webFiles |-> <<"*", ".", "h", "t", "m", "l", ",", "*", ".", "c", "s", "s", ",",
                    "*", ".", "j", "s">>,
     allText |-> <<"*", ".", "t", "x", "t", ",", "*", ".", "m", "d", ",", "*", ".",
                   "j", "s", "o", "n", ",", "*", ".", "y", "m", "l">>,
     bracePy |-> <<"*", ".", "{", "p", "y", ",", "p", "y", "x", ",", "p", "y", "i",
                   "}">>,
     crlf |-> <<"*", ".", "j", "s", ",", "\r", "\n", "*", ".", "t", "s">>]

----------------------------------------------------------------------------
(* readFilesContent *)

MaxBatch == 3

\* Workspace-relative paths of the files a batch is drawn from.
RelPaths == {Name.aJs, Name.bPy, Name.cTs}

\* Decoded texts a read can deliver.
FileTexts == {<<>>, <<"1">>, <<"2">>, <<"1", "\n">>}

NoResult == [success |-> FALSE, content |-> <<>>, fileName |-> <<"?">>, none |-> TRUE]
NoOutcome == [content |-> <<>>, errors |-> -1, failedFiles |-> <<>>]
NotDelivered == [state |-> "pending", text |-> <<>>]

\* Mutant: the block ends with one newline, no blank line.
FormatBlock_NoBlankLine(relativePath, content) ==
    <<"-", "-", "-", " ", "F", "i", "l", "e", ":", " ">> \o relativePath
        \o <<" ", "-", "-", "-", "\n">> \o content \o <<"\n">>

\* `--- File: ${relativePath} ---\n${content}\n\n`
FormatBlock(relativePath, content) ==
    <<"-", "-", "-", " ", "F", "i", "l", "e", ":", " ">> \o relativePath
        \o <<" ", "-", "-", "-", "\n">> \o content \o <<"\n", "\n">>

\* Mutant: the header is written for a batch of one file as well.
ReadSuccess_AlwaysHeader(batch, relativePath, content) ==
    [success |-> TRUE,
     content |-> FormatBlock(relativePath, content),
     fileName |-> relativePath,
     none |-> FALSE]

\* The value the read callback of one file returns when its read succeeds.
ReadSuccess(batch, relativePath, content) ==
    [success |-> TRUE,
     content |-> IF Len(batch) > 1 THEN FormatBlock(relativePath, content) ELSE content,
     fileName |-> relativePath,
     none |-> FALSE]

\* The value the read callback returns when readFile (or the decoding) throws.
ReadFailure(relativePath) ==
    [success |-> FALSE, content |-> <<>>, fileName |-> relativePath, none |-> FALSE]

\* Mutant: the failure list names every file of the batch.
AggregateResults_ListsAll(rs) ==
    [content |-> Flatten(Contents(SelectSeq(rs, LAMBDA r : r.success))),
     errors |-> Len(SelectSeq(rs, LAMBDA r : ~r.success)),
     failedFiles |-> FileNames(rs)]

\* What readFilesContent builds from the joined results.
AggregateResults(rs) ==
    [content |-> Flatten(Contents(SelectSeq(rs, LAMBDA r : r.success))),
     errors |-> Len(SelectSeq(rs, LAMBDA r : ~r.success)),
     failedFiles |-> FileNames(SelectSeq(rs, LAMBDA r : ~r.success))]

\* readFilesContent is not running.
ReadIdle ==
    /\ files = <<>>
    /\ rpc = "idle"
    /\ pending = {}
    /\ results = <<>>
    /\ delivered = <<>>
    /\ outcome = NoOutcome

\* files.map(async ...): every callback runs up to its await of readFile.
IssueReads ==
    /\ rpc = "init"
    /\ rpc' = "reading"
    /\ pending' = 1..Len(files)
    /\ UNCHANGED <<files, results, delivered, outcome>>
    /\ UNCHANGED notRead

\* One read settles and its callback resumes: success with some text.
ReadSucceeds(i, text) ==
    /\ rpc = "reading"
    /\ i \in pending
    /\ pending' = pending \ {i}
    /\ delivered' = [delivered EXCEPT ![i] = [state |-> "ok", text |-> text]]
    /\ results' = [results EXCEPT ![i] = ReadSuccess(files, files[i], text)]
    /\ UNCHANGED <<files, rpc, outcome>>
    /\ UNCHANGED notRead

\* One read settles and its callback resumes: the catch branch.
ReadFails(i) ==
    /\ rpc = "reading"
    /\ i \in pending
    /\ pending' = pending \ {i}
    /\ delivered' = [delivered EXCEPT ![i] = [state |-> "error", text |-> <<>>]]
    /\ results' = [results EXCEPT ![i] = ReadFailure(files[i])]
    /\ UNCHANGED <<files, rpc, outcome>>
    /\ UNCHANGED notRead

\* Mutant: the outcome is built as soon as one read has settled.
JoinReads_FirstSettled ==
    /\ rpc = "reading"
    /\ (pending = {} \/ pending # 1..Len(files))
    /\ rpc' = "done"
    /\ outcome' = AggregateResults(results)
    /\ UNCHANGED <<files, pending, results, delivered>>
    /\ UNCHANGED notRead

\* await Promise.all(fileReadPromises) resumes and the outcome is built.
JoinReads ==
    /\ rpc = "reading"
    /\ pending = {}
    /\ rpc' = "done"
    /\ outcome' = AggregateResults(results)
    /\ UNCHANGED <<files, pending, results, delivered>>
    /\ UNCHANGED notRead

ReadNext ==
    \/ IssueReads
    \/ \E i \in 1..MaxBatch, text \in FileTexts : ReadSucceeds(i, text)
    \/ \E i \in 1..MaxBatch : ReadFails(i)
    \/ JoinReads

----------------------------------------------------------------------------
(* validateFilePatterns, getFilePatterns *)

MaxPatternLen == 3

\* The characters the pattern strings of the model are written with.
PatternAlphabet ==
    {"a", "*", ".", ",", "/", "~", " ", "?", "[", "]", "{", "}", "-", "_"}

\* CONSTANTS.DEFAULTS.FILE_PATTERNS: '*.py,*.js,*.ts'
DEFAULT_FILE_PATTERNS ==
    <<"*", ".", "p", "y", ",", "*", ".", "j", "s", ",", "*", ".", "t", "s">>

\* The pattern examples of the documentation.
DocumentedPatterns ==
    {Glob.sourceCode, Glob.documentation, Glob.webFiles, Glob.allText,
     Glob.braceJsTs, Glob.bracePy, Glob.starCh, Glob.testDigitJs}

\* The strings the allow-pattern setting can hold in the model: the short
\* strings over the alphabet, the documented examples, the default, the
\* advanced example, a string with a parent directory, one with a blank after
\* the comma and one with a line break after the comma.
PatternInputs ==
    SeqsUpTo(PatternAlphabet, MaxPatternLen) \cup DocumentedPatterns
        \cup {DEFAULT_FILE_PATTERNS, Glob.advanced, Glob.parentDir, Glob.spaced, Glob.crlf}

MaxTypedLen == 2

\* The strings the user can type into the input box in the model.
TypedInputs ==
    SeqsUpTo(PatternAlphabet, MaxTypedLen) \cup DocumentedPatterns
        \cup {DEFAULT_FILE_PATTERNS, Glob.advanced, Glob.parentDir, Glob.spaced, Glob.crlf}

\* /^[a-zA-Z0-9*.,_/-]+$/.test(s)
SafePatternRegexTest(s) ==
    /\ Len(s) >= 1
    /\ Chars(s) \subseteq
          (Chars(LowerSeq) \cup Chars(UpperSeq) \cup Digits \cup {"*", ".", ",", "_", "/", "-"})

\* The body of the validator's loop for one trimmed part: TRUE when it returns false.
PartRejected(pattern) ==
    \/ pattern = <<>>
    \/ ~SafePatternRegexTest(pattern)
    \/ Includes(pattern, <<".", ".">>)
    \/ StartsWith(pattern, <<"/">>)
    \/ Includes(pattern, <<"~">>)

\* Mutant: the explicit workspace-escape tests are missing.
ValidateFilePatterns_NoEscapeTest(patterns) ==
    /\ patterns # <<>>
    /\ Trim(patterns) # <<>>
    /\ LET parts == TrimAll(Split(patterns, ","))
       IN  \A i \in 1..Len(parts) :
               parts[i] # <<>> /\ SafePatternRegexTest(parts[i])

\* validateFilePatterns(patterns) for a string argument.
ValidateFilePatterns(patterns) ==
    /\ patterns # <<>>
    /\ Trim(patterns) # <<>>
    /\ LET parts == TrimAll(Split(patterns, ","))
       IN  \A i \in 1..Len(parts) : ~PartRejected(parts[i])

\* patterns.split(',').map(p => p.trim()).filter(p => p.length > 0)
NonEmpty(part) == Len(part) > 0
SplitPatterns(patterns) == SelectSeq(TrimAll(Split(patterns, ",")), NonEmpty)

\* !patterns || patterns.trim() === ''   (patterns: string | undefined)
IsBlank(opt) == ~opt.some \/ opt.v = <<>> \/ Trim(opt.v) = <<>>

\* The validateInput callback of the input box: the message, "" for null.
ValidateInput(value) ==
    IF ValidateFilePatterns(value) THEN "" ELSE "Invalid file patterns."

\* Lines 194-199 of getFilePatterns, for the string (or undefined) it holds.
PatternsResult(opt) ==
    IF ~opt.some \/ opt.v = <<>> \/ ~ValidateFilePatterns(opt.v)
    THEN None
    ELSE Some(SplitPatterns(opt.v))

PatternsMessages(opt) ==
    IF ~opt.some \/ opt.v = <<>> \/ ~ValidateFilePatterns(opt.v)
    THEN <<"INVALID_PATTERNS">>
    ELSE <<>>

PatInit ==
    /\ allowedFilePatterns \in {None} \cup {Some(x) : x \in PatternInputs}
    /\ gpc = "init"
    /\ boxValue = <<>>
    /\ boxMessage = ""
    /\ patternSet = None
    /\ shown = <<>>

\* getFilePatterns is not running.
PatIdle ==
    /\ allowedFilePatterns = None
    /\ gpc = "idle"
    /\ boxValue = <<>>
    /\ boxMessage = ""
    /\ patternSet = None
    /\ shown = <<>>

\* getFilePatterns with a configured, non-blank pattern string.
GetConfiguredPatterns ==
    /\ gpc = "init"
    /\ ~IsBlank(allowedFilePatterns)
    /\ gpc' = "done"
    /\ patternSet' = PatternsResult(allowedFilePatterns)
    /\ shown' = shown \o PatternsMessages(allowedFilePatterns)
    /\ UNCHANGED <<allowedFilePatterns, boxValue, boxMessage>>
    /\ UNCHANGED notPat

\* getFilePatterns with no configured patterns: the input box opens, holding the
\* default patterns.
OpenInputBox ==
    /\ gpc = "init"
    /\ IsBlank(allowedFilePatterns)
    /\ gpc' = "prompt"
    /\ boxValue' = DEFAULT_FILE_PATTERNS
    /\ boxMessage' = ""
    /\ UNCHANGED <<allowedFilePatterns, patternSet, shown>>
    /\ UNCHANGED notPat

\* The user replaces the text of the box, any number of times; the box runs
\* validateInput on the new text.
TypeInput(value) ==
    /\ gpc = "prompt"
    /\ boxValue' = value
    /\ boxMessage' = ValidateInput(value)
    /\ UNCHANGED <<allowedFilePatterns, gpc, patternSet, shown>>
    /\ UNCHANGED notPat

\* The user accepts; the box closes only while it shows no validation message.
AcceptInput ==
    /\ gpc = "prompt"
    /\ boxMessage = ""
    /\ gpc' = "done"
    /\ patternSet' = PatternsResult(Some(boxValue))
    /\ shown' = shown \o PatternsMessages(Some(boxValue))
    /\ UNCHANGED <<allowedFilePatterns, boxValue, boxMessage>>
    /\ UNCHANGED notPat

\* The user dismisses the box: showInputBox resolves to undefined.
DismissInput ==
    /\ gpc = "prompt"
    /\ gpc' = "done"
    /\ patternSet' = PatternsResult(None)
    /\ shown' = shown \o PatternsMessages(None)
    /\ UNCHANGED <<allowedFilePatterns, boxValue, boxMessage>>
    /\ UNCHANGED notPat

----------------------------------------------------------------------------
(* getVSCodeExcludePatterns, buildExcludePattern *)

MaxExcludeLen == 3

\* The characters the custom-exclude strings of the model are written with.
ExcludeAlphabet == {"a", "*", ".", ",", "/", "~", " "}

\* Values of the files.exclude setting (Record<string, boolean>, in key order).
FilesExcludeSettings ==
    {None,
     Some(<<[pattern |-> Glob.hostA, enabled |-> TRUE]>>),
     Some(<<[pattern |-> Glob.hostA, enabled |-> FALSE]>>),
     Some(<<[pattern |-> Glob.hostStarA, enabled |-> TRUE],
            [pattern |-> Glob.hostA, enabled |-> FALSE]>>),
     Some(<<[pattern |-> Glob.hostA, enabled |-> TRUE],
            [pattern |-> Glob.hostStarA, enabled |-> TRUE]>>)}

\* Values of the search.exclude setting.
SearchExcludeSettings ==
    {None,
     Some(<<[pattern |-> Glob.hostA, enabled |-> TRUE]>>),
     Some(<<[pattern |-> Glob.hostStarA, enabled |-> TRUE],
            [pattern |-> Glob.hostA, enabled |-> FALSE]>>)}

\* The strings the custom-exclude setting can hold in the model.
ExcludeInputs ==
    SeqsUpTo(ExcludeAlphabet, MaxExcludeLen) \cup {Glob.parentDir, Glob.spaced, Glob.crlf}

\* Array.prototype.includes
Contains(list, x) == \E i \in 1..Len(list) : list[i] = x

\* The enabled patterns of one setting appended to `patterns`; with `skipKnown`
\* (the search.exclude loop) a pattern already in the list is not added again.
RECURSIVE PushEnabled(_, _, _)
PushEnabled(patterns, entries, skipKnown) ==
    IF entries = <<>> THEN patterns
    ELSE LET e == Head(entries)
             add == e.enabled /\ ~(skipKnown /\ Contains(patterns, e.pattern))
         IN  PushEnabled(IF add THEN Append(patterns, e.pattern) ELSE patterns,
                         Tail(entries), skipKnown)

\* What the lookups of one getVSCodeExcludePatterns call do: both answer, the
\* lookup of files.exclude throws, or the lookup of search.exclude throws.
LookupOutcomes == {"none", "files", "search"}

\* getVSCodeExcludePatterns(): the catch returns the list built before the
\* lookup that threw (lines 497-522).
GetVSCodeExcludePatterns(filesEx, searchEx, thrown) ==
    LET fromFiles == IF filesEx.some THEN PushEnabled(<<>>, filesEx.v, FALSE) ELSE <<>>
    IN  IF thrown = "files" THEN <<>>
        ELSE IF thrown = "search" THEN fromFiles
        ELSE IF searchEx.some THEN PushEnabled(fromFiles, searchEx.v, TRUE)
        ELSE fromFiles

\* Array.from(new Set(list)): first occurrences, in order.
RECURSIVE Unique(_)
Unique(list) ==
    IF list = <<>> THEN <<>>
    ELSE LET init == Unique(SubSeq(list, 1, Len(list) - 1))
             last == list[Len(list)]
         IN  IF Contains(init, last) THEN init ELSE Append(init, last)

\* Mutant: the parts that pass the validator's tests are taken from a string
\* the validator rejects.
CustomPatterns_KeepsValidParts(custom) ==
    IF custom # <<>> /\ Trim(custom) # <<>>
    THEN SelectSeq(SplitPatterns(custom), LAMBDA part : ~PartRejected(part))
    ELSE <<>>

\* The parts buildExcludePattern takes from the custom-exclude string.
CustomPatterns(custom) ==
    IF custom # <<>> /\ Trim(custom) # <<>> /\ ValidateFilePatterns(custom)
    THEN SplitPatterns(custom)
    ELSE <<>>

\* The merged list of buildExcludePattern (lines 529-549).
MergedPatterns(respect, filesEx, searchEx, custom, thrown) ==
    (IF respect THEN GetVSCodeExcludePatterns(filesEx, searchEx, thrown) ELSE <<>>)
        \o CustomPatterns(custom)

\* The glob built from the merged list (lines 551-565).
\* Mutant: a single pattern is wrapped in braces too.
CombineExcludes_AlwaysBraces(merged) ==
    IF Len(merged) = 0 THEN None
    ELSE Some(<<"*", "*", "/", "{">> \o Join(Unique(merged), ",") \o <<"}">>)

CombineExcludes(merged) ==
    IF Len(merged) = 0 THEN None
    ELSE LET uniquePatterns == Unique(merged)
         IN  IF Len(uniquePatterns) = 1
             THEN Some(<<"*", "*", "/">> \o uniquePatterns[1])
             ELSE Some(<<"*", "*", "/", "{">> \o Join(uniquePatterns, ",") \o <<"}">>)

ExInit ==
    /\ respectVSCodeExcludes \in BOOLEAN
    /\ filesExclude \in FilesExcludeSettings
    /\ searchExclude \in SearchExcludeSettings
    /\ customExcludePatterns \in ExcludeInputs
    /\ xpc = "init"
    /\ hostThrown = "none"
    /\ allPatterns = <<>>
    /\ excludePattern = None

\* buildExcludePattern is not running.
ExIdle ==
    /\ respectVSCodeExcludes = TRUE
    /\ filesExclude = None
    /\ searchExclude = None
    /\ customExcludePatterns = <<>>
    /\ xpc = "idle"
    /\ hostThrown = "none"
    /\ allPatterns = <<>>
    /\ excludePattern = None

\* buildExcludePattern(workspaceFolder): it has no suspension point. A lookup
\* of getVSCodeExcludePatterns, which runs only when respectVSCodeExcludes is
\* set, may throw; the call returns all the same.
BuildExcludePattern(thrown) ==
    /\ xpc = "init"
    /\ thrown # "none" => respectVSCodeExcludes
    /\ xpc' = "done"
    /\ hostThrown' = thrown
    /\ allPatterns' = MergedPatterns(respectVSCodeExcludes, filesExclude, searchExclude,
                                     customExcludePatterns, thrown)
    /\ excludePattern' = CombineExcludes(allPatterns')
    /\ UNCHANGED <<respectVSCodeExcludes, filesExclude, searchExclude, customExcludePatterns>>
    /\ UNCHANGED notEx

\* The lookup of the extension's own settings throws (lines 528, 532, 539):
\* nothing guards it, and buildExcludePattern rejects.
BuildExcludePatternThrows ==
    /\ xpc = "init"
    /\ xpc' = "thrown"
    /\ UNCHANGED <<respectVSCodeExcludes, filesExclude, searchExclude, customExcludePatterns,
                   hostThrown, allPatterns, excludePattern>>
    /\ UNCHANGED notEx

----------------------------------------------------------------------------
(* The matcher of the `ignore` package: ignore().add(text).ignores(path) *)

\* The pattern of a line without its trailing white space, /\\?\s+$/: the run
\* is dropped, and a backslash before it turns the run into one blank.
StripTrailingSpace(pattern) ==
    LET kept == TrimEnd(pattern)
    IN  IF kept = pattern THEN pattern
        ELSE IF kept # <<>> /\ kept[Len(kept)] = "\\"
             THEN SubSeq(kept, 1, Len(kept) - 1) \o <<" ">>
        ELSE kept

\* One line of an ignore-file as a rule: negation `!`, a leading `\!` or `\#`
\* read as the character itself, trailing white space dropped, a trailing `/`
\* (directories only), anchoring (a `/` at the start or inside), and its path
\* components.
ParseRule(line) ==
    LET negative == line # <<>> /\ Head(line) = "!"
        rest == IF negative THEN Tail(line) ELSE line
        unescaped == IF Len(rest) >= 2 /\ rest[1] = "\\" /\ rest[2] \in {"!", "#"}
                     THEN Tail(rest) ELSE rest
        body == StripTrailingSpace(unescaped)
        dirOnly == body # <<>> /\ body[Len(body)] = "/"
        noTail == IF dirOnly THEN SubSeq(body, 1, Len(body) - 1) ELSE body
        anchored == Includes(noTail, <<"/">>)
        bare == IF noTail # <<>> /\ Head(noTail) = "/" THEN Tail(noTail) ELSE noTail
    IN  [negative |-> negative, dirOnly |-> dirOnly, anchored |-> anchored,
         comps |-> Split(bare, "/")]

\* A line that states a rule: not blank, not a comment, not ended by a single
\* backslash.
IsRuleLine(line) ==
    /\ Trim(line) # <<>>
    /\ Head(line) # "#"
    /\ ~(/\ line[Len(line)] = "\\"
         /\ (Len(line) = 1 \/ line[Len(line) - 1] # "\\"))

\* text.split(/\r?\n/g): a carriage return before a line feed belongs to the
\* separator.
SplitLines(text) ==
    LET pieces == Split(text, "\n")
        cut(i) == IF /\ i < Len(pieces)
                     /\ pieces[i] # <<>>
                     /\ pieces[i][Len(pieces[i])] = "\r"
                  THEN SubSeq(pieces[i], 1, Len(pieces[i]) - 1)
                  ELSE pieces[i]
    IN  [i \in 1..Len(pieces) |-> cut(i)]

\* ignore().add(text): the rules of the text, in order.
CompileIgnore(text) ==
    LET lines == SelectSeq(SplitLines(text), IsRuleLine)
    IN  [i \in 1..Len(lines) |-> ParseRule(lines[i])]

\* Glob match of one path component, letter case ignored as a regular
\* expression with flag `i` ignores it: `*` any run of characters, `?` one
\* character.
RECURSIVE GlobMatch(_, _)
GlobMatch(pat, str) ==
    IF pat = <<>> THEN str = <<>>
    ELSE IF Head(pat) = "*"
         THEN GlobMatch(Tail(pat), str) \/ (str # <<>> /\ GlobMatch(pat, Tail(str)))
    ELSE IF str = <<>> THEN FALSE
    ELSE IF Head(pat) = "?" \/ Canonicalize[Head(pat)] = Canonicalize[Head(str)]
         THEN GlobMatch(Tail(pat), Tail(str))
    ELSE FALSE

\* Whether the rule matches the path made of the first k components of comps;
\* isDir says whether that path is a directory.
RuleMatches(rule, comps, k, isDir) ==
    /\ rule.dirOnly => isDir
    /\ IF rule.anchored
       THEN /\ k = Len(rule.comps)
            /\ \A j \in 1..k : GlobMatch(rule.comps[j], comps[j])
       ELSE GlobMatch(rule.comps[1], comps[k])

\* The rules applied in order to one path: a matching rule ignores it, a matching
\* negated rule un-ignores it. `ignored` is the state before rule number n.
RECURSIVE TestOne(_, _, _, _, _, _)
TestOne(rules, comps, k, isDir, n, ignored) ==
    IF n > Len(rules) THEN ignored
    ELSE TestOne(rules, comps, k, isDir, n + 1,
                 IF RuleMatches(rules[n], comps, k, isDir)
                 THEN ~rules[n].negative
                 ELSE ignored)

\* ig.ignores(path) for a relative file path: the path is ignored when one of its
\* parent directories is, and otherwise when the rules ignore the path itself.
Ignores(rules, path) ==
    LET comps == Split(path, "/")
    IN  \E k \in 1..Len(comps) : TestOne(rules, comps, k, k < Len(comps), 1, FALSE)

----------------------------------------------------------------------------
(* findAllGitignoreFiles, createHierarchicalIgnoreList, filterFilesWithGitignore *)

\* A map with no entry.
EmptyMap == [d \in {} |-> <<>>]

\* Map.prototype.set
MapSet(m, key, value) ==
    [d \in DOMAIN m \cup {key} |-> IF d = key THEN value ELSE m[d]]

\* The absolute path with the given components.

\* workspaceFolder.uri.fsPath

GitignorePaths == <<IgnoreFile.root, IgnoreFile.sub, IgnoreFile.sibling, IgnoreFile.outside>>

\* The enumeration's answers: the lists of distinct ignore-file paths (the reads
\* complete in any order, so one order of each list is enough).
GitignoreLists ==
    LET nth(S, k) == CHOOSE i \in S : Cardinality({j \in S : j < i}) = k - 1
    IN  {[k \in 1..Cardinality(S) |-> GitignorePaths[nth(S, k)]] :
            S \in SUBSET (1..Len(GitignorePaths))}

\* The texts an ignore-file can hold.
GitignoreTexts ==
    {<<>>, Rule.log, Rule.tmp, Rule.build, Rule.yLog, Rule.tmpNotX, Rule.logCrlf}

\* The files of the workspace a walk can hand to the filter.
WorkspaceFiles ==
    <<File.subX, File.subY, File.otherZ, File.y, File.buildO, File.anyBuildO, File.subBuildO,
      File.subAnyBuildO>>

\* The candidate lists of the model: the files in two enumeration orders.
CandidateLists ==
    {WorkspaceFiles, [i \in 1..Len(WorkspaceFiles) |-> WorkspaceFiles[Len(WorkspaceFiles) + 1 - i]]}

\* The security test of an ignore-file path (line 373).
WithinWorkspace(gitignorePath, workspacePath) == StartsWith(gitignorePath, workspacePath)

\* dirsToCheck: the workspace root, then each directory down to the file's own
\* (lines 414-428); `parts` are the components still to be joined.
RECURSIVE DirsBelow(_, _)
DirsBelow(currentPath, parts) ==
    IF parts = <<>> THEN <<>>
    ELSE <<PathJoin(currentPath, Head(parts))>>
         \o DirsBelow(PathJoin(currentPath, Head(parts)), Tail(parts))

\* Mutant: only the ignore-file of the workspace root is consulted.
DirsToCheck_RootOnly(filePath, workspaceRoot) == <<workspaceRoot>>

DirsToCheck(filePath, workspaceRoot) ==
    LET relativePath == PathRelative(workspaceRoot, Dirname(filePath))
    IN  IF relativePath # <<>> /\ relativePath # <<".">>
        THEN <<workspaceRoot>> \o DirsBelow(workspaceRoot, Split(relativePath, SEP))
        ELSE <<workspaceRoot>>

\* The directories of dirsToCheck that have a non-empty ignore-file text: the
\* baseDirs of createHierarchicalIgnoreList's result, in order.
RECURSIVE BaseDirs(_, _)
BaseDirs(dirs, map) ==
    IF dirs = <<>> THEN <<>>
    ELSE (IF Head(dirs) \in DOMAIN map /\ map[Head(dirs)] # <<>>
          THEN <<Head(dirs)>> ELSE <<>>)
         \o BaseDirs(Tail(dirs), map)

\* Mutant: the cache is created anew for every file, and holds the matchers of
\* the directories of that file.
RECURSIVE CacheAfter_PerFile(_, _, _)
CacheAfter_PerFile(cache, dirs, map) ==
    IF dirs = <<>> THEN EmptyMap
    ELSE MapSet(CacheAfter_PerFile(cache, Tail(dirs), map),
                Head(dirs), CompileIgnore(map[Head(dirs)]))

\* The cache after createHierarchicalIgnoreList has served the directories: a
\* directory not yet cached gets the matcher compiled from its text.
RECURSIVE CacheAfter(_, _, _)
CacheAfter(cache, dirs, map) ==
    IF dirs = <<>> THEN cache
    ELSE CacheAfter(IF Head(dirs) \in DOMAIN cache THEN cache
                    ELSE MapSet(cache, Head(dirs), CompileIgnore(map[Head(dirs)])),
                    Tail(dirs), map)

\* Mutant: the tested path is taken relative to the workspace root.
NormalizedPath_FromRoot(baseDir, filePath) ==
    Join(Split(PathRelative(WS_ROOT, filePath), SEP), "/")

\* The path tested against the matcher of baseDir (lines 480-481).
NormalizedPath(baseDir, filePath) ==
    Join(Split(PathRelative(baseDir, filePath), SEP), "/")

\* Mutant: the matcher of the deepest directory decides alone.
KeepFile_DeepestDecides(filePath, dirs, cache) ==
    \/ dirs = <<>>
    \/ ~Ignores(cache[dirs[Len(dirs)]], NormalizedPath(dirs[Len(dirs)], filePath))

\* The callback of files.filter for one file, with the cache as it is after
\* createHierarchicalIgnoreList: TRUE when the file is kept.
KeepFile(filePath, dirs, cache) ==
    \A i \in 1..Len(dirs) : ~Ignores(cache[dirs[i]], NormalizedPath(dirs[i], filePath))

\* The directories for which ignoreCache.get(dir) finds no matcher (line 435),
\* so that one is compiled (line 437).
CacheMisses(cache, dirs) == SelectSeq(dirs, LAMBDA d : d \notin DOMAIN cache)

\* files.filter(...) from file number i on, threading the cache; `compiled`
\* lists the directories a matcher was compiled for, one entry per compilation.
RECURSIVE FilterFrom(_, _, _, _, _)
FilterFrom(fs, i, workspaceRoot, map, cache) ==
    IF i > Len(fs) THEN [kept |-> <<>>, cache |-> cache, compiled |-> <<>>]
    ELSE LET dirs == BaseDirs(DirsToCheck(fs[i], workspaceRoot), map)
             cache2 == CacheAfter(cache, dirs, map)
             rest == FilterFrom(fs, i + 1, workspaceRoot, map, cache2)
         IN  [kept |-> (IF KeepFile(fs[i], dirs, cache2) THEN <<fs[i]>> ELSE <<>>)
                        \o rest.kept,
              cache |-> rest.cache,
              compiled |-> CacheMisses(cache, dirs) \o rest.compiled]

\* filterFilesWithGitignore(files, workspaceRoot, gitignoreMap), with the cache
\* it leaves behind.
FilterFilesWithGitignore(fs, workspaceRoot, map) ==
    IF DOMAIN map = {} THEN [kept |-> fs, cache |-> EmptyMap, compiled |-> <<>>]
    ELSE FilterFrom(fs, 1, workspaceRoot, map, EmptyMap)

\* The ignore-rule resolver is not running.
IgnIdle ==
    /\ gitignoreFiles = <<>>
    /\ candidates = <<>>
    /\ ipc = "idle"
    /\ giPending = {}
    /\ giRead = {}
    /\ giDelivered = <<>>
    /\ gitignoreMap = EmptyMap
    /\ ignoreCache = EmptyMap
    /\ filtered = <<>>

\* The indices of the ignore-files that pass the security test.
Admitted == {i \in 1..Len(gitignoreFiles) : WithinWorkspace(gitignoreFiles[i], WS_ROOT)}

\* findFiles resolves: every callback runs up to its return or its readFile.
GitignoresFound ==
    /\ ipc = "init"
    /\ ipc' = "reading"
    /\ giRead' = Admitted
    /\ giPending' = Admitted
    /\ giDelivered' = [i \in Admitted |-> NotDelivered]
    /\ UNCHANGED <<gitignoreFiles, gitignoreMap, candidates, ignoreCache, filtered>>
    /\ UNCHANGED notIgn

\* findFiles rejects: the map stays empty, and the filter returns the files as
\* they are.
GitignoreSearchFails ==
    /\ ipc = "init"
    /\ ipc' = "done"
    /\ gitignoreFiles' = <<>>
    /\ filtered' = FilterFilesWithGitignore(candidates, WS_ROOT, gitignoreMap).kept
    /\ ignoreCache' = FilterFilesWithGitignore(candidates, WS_ROOT, gitignoreMap).cache
    /\ UNCHANGED <<giPending, giRead, giDelivered, gitignoreMap, candidates>>
    /\ UNCHANGED notIgn

\* One ignore-file read settles with a text: the map gets the entry of its directory.
GitignoreRead(i, text) ==
    /\ ipc = "reading"
    /\ i \in giPending
    /\ giPending' = giPending \ {i}
    /\ giDelivered' = [giDelivered EXCEPT ![i] = [state |-> "ok", text |-> text]]
    /\ gitignoreMap' = MapSet(gitignoreMap, Dirname(gitignoreFiles[i]), text)
    /\ UNCHANGED <<gitignoreFiles, ipc, giRead, candidates, ignoreCache, filtered>>
    /\ UNCHANGED notIgn

\* Mutant: the failed read leaves the map without the entries set so far.
GitignoreReadFails_ClearsMap(i) ==
    /\ ipc = "reading"
    /\ i \in giPending
    /\ giPending' = giPending \ {i}
    /\ giDelivered' = [giDelivered EXCEPT ![i] = [state |-> "error", text |-> <<>>]]
    /\ gitignoreMap' = EmptyMap
    /\ UNCHANGED <<gitignoreFiles, ipc, giRead, candidates, ignoreCache, filtered>>
    /\ UNCHANGED notIgn

\* One ignore-file read fails: the file is skipped.
GitignoreReadFails(i) ==
    /\ ipc = "reading"
    /\ i \in giPending
    /\ giPending' = giPending \ {i}
    /\ giDelivered' = [giDelivered EXCEPT ![i] = [state |-> "error", text |-> <<>>]]
    /\ UNCHANGED <<gitignoreFiles, ipc, giRead, gitignoreMap, candidates, ignoreCache,
                   filtered>>
    /\ UNCHANGED notIgn

\* Promise.all resolves, findAllGitignoreFiles returns the map, and the caller
\* filters the files with it (lines 388-393 and 597).
FilterWithGitignore ==
    /\ ipc = "reading"
    /\ giPending = {}
    /\ ipc' = "done"
    /\ filtered' = FilterFilesWithGitignore(candidates, WS_ROOT, gitignoreMap).kept
    /\ ignoreCache' = FilterFilesWithGitignore(candidates, WS_ROOT, gitignoreMap).cache
    /\ UNCHANGED <<gitignoreFiles, giPending, giRead, giDelivered, gitignoreMap, candidates>>
    /\ UNCHANGED notIgn

----------------------------------------------------------------------------
(* matchesPattern, matchesSinglePattern, filterFilesByPatterns *)

\* path.basename: the last component, trailing separators dropped.
\* Mutant: the path as it is.
Basename_WholePath(p) == p

RECURSIVE Basename(_)
Basename(p) ==
    IF Len(p) > 1 /\ p[Len(p)] = SEP THEN Basename(SubSeq(p, 1, Len(p) - 1))
    ELSE LET parts == Split(p, SEP)
         IN  parts[Len(parts)]

\* The three replacements of lines 241-244 applied to one character of a
\* character class: `.` stays a dot, `?` becomes a dot, `*` becomes a dot and a
\* star. (Line 247 replaces every class by itself.)

\* The members of the class written between the brackets, as the regular
\* expression has them after the replacements.
ClassAtoms(raw) ==
    LET atomsOf(c) == IF c = "?" THEN <<".">>
                      ELSE IF c = "*" THEN <<".", "*">>
                      ELSE <<c>>
    IN  Flatten([i \in 1..Len(raw) |-> atomsOf(raw[i])])

\* The ranges [lo, hi] of a class, read from its members from position n on: an
\* inner `-` between two members makes a range, any other member stands alone.
RECURSIVE ClassRanges(_, _)
ClassRanges(atoms, n) ==
    IF n > Len(atoms) THEN <<>>
    ELSE IF n + 2 <= Len(atoms) /\ atoms[n + 1] = "-"
         THEN <<[lo |-> atoms[n], hi |-> atoms[n + 2]]>> \o ClassRanges(atoms, n + 3)
    ELSE <<[lo |-> atoms[n], hi |-> atoms[n]]>> \o ClassRanges(atoms, n + 1)

\* A class written between brackets: negated by a leading `^`.
ParseClass(raw) ==
    LET negated == raw # <<>> /\ Head(raw) = "^"
        atoms == ClassAtoms(IF negated THEN Tail(raw) ELSE raw)
    IN  [negated |-> negated, ranges |-> ClassRanges(atoms, 1)]

\* Whether the class accepts the character under flag `i`: some character of
\* one of its ranges has the canonical form of the character.
ClassAccepts(class, ch) ==
    LET inRange(r, x) == CharCode[r.lo] <= CharCode[x] /\ CharCode[x] <= CharCode[r.hi]
        hit == \E k \in 1..Len(class.ranges) :
                   \E x \in CaseVariants[ch] : inRange(class.ranges[k], x)
    IN  IF class.negated THEN ~hit ELSE hit

\* Whether new RegExp accepts the expression built from the pattern from position
\* i on: every `[` has its `]`, and no range runs backwards.
RECURSIVE RegexCompiles(_, _)
RegexCompiles(pattern, i) ==
    IF i > Len(pattern) THEN TRUE
    ELSE IF pattern[i] = "["
         THEN LET close == IndexOfFrom(pattern, "]", i + 1)
              IN  /\ close # 0
                  /\ \A k \in 1..Len(ParseClass(SubSeq(pattern, i + 1, close - 1)).ranges) :
                        LET r == ParseClass(SubSeq(pattern, i + 1, close - 1)).ranges[k]
                        IN  CharCode[r.lo] <= CharCode[r.hi]
                  /\ RegexCompiles(pattern, close + 1)
    ELSE RegexCompiles(pattern, i + 1)

\* The test of ^regexPattern$ with flag `i`, the pattern read from position i
\* and the name from position j: `*` is any run of characters other than line
\* terminators (the dot of an expression without flag `s`), `?` any one such
\* character, `[...]` a class, every other character stands for itself and
\* for the characters of the same canonical form. The
\* patterns of the model hold no other character that a regular expression
\* reads as an operator (`+`, `(`, `)`, `|`, `^`, `$`, `\`, a counted `{n}`).
RECURSIVE RegexTest(_, _, _, _)
RegexTest(pattern, i, name, j) ==
    IF i > Len(pattern) THEN j > Len(name)
    ELSE IF pattern[i] = "*"
         THEN \/ RegexTest(pattern, i + 1, name, j)
              \/ /\ j <= Len(name)
                 /\ name[j] \notin LineTerminators
                 /\ RegexTest(pattern, i, name, j + 1)
    ELSE IF j > Len(name) THEN FALSE
    ELSE IF pattern[i] = "?"
         THEN name[j] \notin LineTerminators /\ RegexTest(pattern, i + 1, name, j + 1)
    ELSE IF pattern[i] = "["
         THEN LET close == IndexOfFrom(pattern, "]", i + 1)
              IN  /\ ClassAccepts(ParseClass(SubSeq(pattern, i + 1, close - 1)), name[j])
                  /\ RegexTest(pattern, close + 1, name, j + 1)
    ELSE /\ Canonicalize[pattern[i]] = Canonicalize[name[j]]
         /\ RegexTest(pattern, i + 1, name, j + 1)

\* matchesSinglePattern(fileName, pattern), for a pattern whose expression compiles.
MatchesSinglePattern(fileName, pattern) == RegexTest(pattern, 1, fileName, 1)

\* The match of /^(.+)\{([^}]+)\}(.*)$/ on the pattern: the positions of the
\* braces of the group, the last `{` that has a non-empty prefix without a line
\* terminator before it (the dots of the expression accept none), a non-empty
\* run without `}` up to the next `}`, and no line terminator after that `}`;
\* or None.
BraceMatch(pattern) ==
    LET opens == {p \in 2..Len(pattern) :
                     /\ pattern[p] = "{"
                     /\ IndexOfFrom(pattern, "}", p + 1) > p + 1
                     /\ \A q \in 1..(p - 1) : pattern[q] \notin LineTerminators
                     /\ \A q \in (IndexOfFrom(pattern, "}", p + 1) + 1)..Len(pattern) :
                           pattern[q] \notin LineTerminators}
    IN  IF opens = {} THEN None
        ELSE LET open == CHOOSE p \in opens : \A q \in opens : q <= p
             IN  Some([open |-> open, close |-> IndexOfFrom(pattern, "}", open + 1)])

\* The patterns one pattern stands for (lines 221-232): a brace group is expanded
\* into one pattern per comma-separated option, trimmed; anything else is taken
\* as it is.
ExpandedPatterns(pattern) ==
    IF Includes(pattern, <<"{">>) /\ Includes(pattern, <<"}">>) /\ BraceMatch(pattern).some
    THEN LET m == BraceMatch(pattern).v
             prefix == SubSeq(pattern, 1, m.open - 1)
             options == TrimAll(Split(SubSeq(pattern, m.open + 1, m.close - 1), ","))
             suffix == SubSeq(pattern, m.close + 1, Len(pattern))
         IN  [k \in 1..Len(options) |-> prefix \o options[k] \o suffix]
    ELSE <<pattern>>

\* Whether one pattern of the list accepts the file name.
PatternAccepts(fileName, pattern) ==
    \E k \in 1..Len(ExpandedPatterns(pattern)) :
        MatchesSinglePattern(fileName, ExpandedPatterns(pattern)[k])

\* matchesPattern(filePath, patterns), for patterns whose expressions compile.
MatchesPattern(filePath, patterns) ==
    \E k \in 1..Len(patterns) : PatternAccepts(Basename(filePath), patterns[k])

\* vscode.workspace.asRelativePath: the path below the workspace folder, or the
\* path itself when it is not below it.
AsRelativePath(fsPath) ==
    IF StartsWith(fsPath, WS_ROOT \o <<SEP>>)
    THEN SubSeq(fsPath, Len(WS_ROOT) + 2, Len(fsPath))
    ELSE fsPath

\* filterFilesByPatterns(files, patterns)
FilterFilesByPatterns(fs, patterns) ==
    LET keep(fileUri) == MatchesPattern(AsRelativePath(fileUri), patterns)
    IN  SelectSeq(fs, keep)

----------------------------------------------------------------------------
(* matchesPattern and filterFilesByPatterns on one path *)

MaxGlobLen == 3
MaxNameLen == 2

\* The paths and pattern lists matchesPattern is applied to: every pattern of
\* at most MaxGlobLen characters over a literal, the wildcards and the brackets,
\* and patterns with a brace group, a range or a rewritten class member; every
\* non-empty file name of at most MaxNameLen characters over a letter in both cases and
\* the dot, and names the chosen patterns are about, of which some hold a
\* letter outside ASCII whose upper-case form is another letter, an ASCII letter
\* or two letters; each name bare, below a
\* relative directory, below the workspace folder, and below a directory named
\* like a file.
MatchChoices ==
    LET chosenGlobs ==
            {Glob.braceJsTs, Glob.bracePy, Glob.starJs, Glob.starCh,
             <<"a", "?">>, <<"a", "\n">>,
             <<"a", "\n", "{", "b", ",", "c", "}">>, <<"a", "{", "b", ",", "c", "}", "\r">>,
             <<"{", "a", ",", "b", "}", ".", "j", "s">>,
             <<"a", "{", ".", "j", "s", ",", ".", "t", "s", "}">>,
             <<"a", ".", "{", "j", "s", ",", " ", "t", "s", "}">>,
             <<"a", ".", "j", "s">>, <<"A", ".", "J", "S">>, <<"a", ".", "t", "s">>,
             <<"[", "a", "-", "c", "]">>, <<"[", "A", "-", "z", "]">>,
             <<"[", "_", "-", "a", "]">>, <<"[", "^", "a", "]">>,
             <<"[", "?", "]">>, <<"[", "*", "]">>, <<"[", ".", "]">>,
             <<"a", "[", "b", "-", "a", "]">>,
             <<"i", ".", "j", "s">>, <<"s", "s", ".", "j", "s">>, <<"ß", ".", "j", "s">>,
             <<"é">>, <<"[", "à", "-", "þ", "]">>, <<"[", "µ", "]">>}
        chosenNames ==
            {Name.aJs, Name.aTs, <<"A", ".", "J", "S">>, <<"b", ".", "j", "s">>,
             <<"a", ".", "p", "y">>, <<"a", ".", "p", "y", "x">>, <<"a", ".", "p", "y", "i">>,
             <<"a", "\n", ".", "j", "s">>, <<"a", "\n">>, <<"a", "\r">>, <<"\n">>,
             <<"a", "\n", "b">>, <<"a", "\n", "{", "b", ",", "c", "}">>, <<"a", "b", "\r">>,
             <<"a", ".", " ", "t", "s">>,
             <<"{", "a", ",", "b", "}", ".", "j", "s">>,
             <<"b">>, <<"_">>, <<"?">>, <<"*">>, <<"[">>,
             <<"i", ".", "j", "s">>, <<"U+0131", ".", "j", "s">>, <<"U+0130", ".", "j", "s">>,
             <<"ß", ".", "j", "s">>, <<"s", "s", ".", "j", "s">>, <<"U+017F", "s", ".", "j", "s">>,
             <<"é">>, <<"É">>, <<"÷">>, <<"µ">>, <<"μ">>, <<"Μ">>, <<"a", "U+2028">>}
        dirParts == {<<>>, Name.sub \o <<SEP>>, WS_ROOT \o <<SEP>>, Name.aJs \o <<SEP>>}
        globs == SeqsUpTo({"a", "*", "?", "[", "]"}, MaxGlobLen) \cup chosenGlobs
        names == (SeqsUpTo({"a", "A", "."}, MaxNameLen) \ {<<>>}) \cup chosenNames
    IN  [paths |-> {dir \o name : dir \in dirParts, name \in names},
         patternLists |->
            {<<>>} \cup {<<p>> : p \in globs}
                   \cup {<<p, q>> : p \in chosenGlobs, q \in {Glob.starJs, <<"a", "[">>}}]

\* Array.prototype.some over the expanded patterns, from position k on, as
\* matchesSinglePattern answers it: "true" at the first pattern that accepts the
\* name, "throws" at the first pattern new RegExp rejects, "false" at the end.
RECURSIVE SomeMatches(_, _, _)
SomeMatches(fileName, expanded, k) ==
    IF k > Len(expanded) THEN "false"
    ELSE IF ~RegexCompiles(expanded[k], 1) THEN "throws"
    ELSE IF MatchesSinglePattern(fileName, expanded[k]) THEN "true"
    ELSE SomeMatches(fileName, expanded, k + 1)

\* How matchesPattern(filePath, patterns) ends.
MatchOutcome(filePath, patterns) ==
    SomeMatches(Basename(filePath),
                Flatten([k \in 1..Len(patterns) |-> ExpandedPatterns(patterns[k])]), 1)

\* How filterFilesByPatterns(files, patterns) ends: the list kept, or None when
\* a call of matchesPattern threw.
FilterOutcome(fs, patterns) ==
    IF \E i \in 1..Len(fs) : MatchOutcome(AsRelativePath(fs[i]), patterns) = "throws"
    THEN None
    ELSE Some(SelectSeq(fs, LAMBDA f : MatchOutcome(AsRelativePath(f), patterns) = "true"))

MatchIdle ==
    /\ mPath = <<>>
    /\ mPatterns = <<>>
    /\ mpc = "idle"
    /\ mResult = ""
    /\ mKept = None

\* matchesPattern(mPath, mPatterns)
MatchPath ==
    /\ mpc = "init"
    /\ mpc' = "matched"
    /\ mResult' = MatchOutcome(mPath, mPatterns)
    /\ UNCHANGED <<mPath, mPatterns, mKept>>
    /\ UNCHANGED notMatch

\* filterFilesByPatterns([mPath], mPatterns)
FilterPath ==
    /\ mpc = "matched"
    /\ mpc' = "filtered"
    /\ mKept' = FilterOutcome(<<mPath>>, mPatterns)
    /\ UNCHANGED <<mPath, mPatterns, mResult>>
    /\ UNCHANGED notMatch

----------------------------------------------------------------------------
(* separateFilesAndFolders *)

MaxUris == 3

\* vscode.FileType
FileType == [Unknown |-> 0, File |-> 1, Directory |-> 2, SymbolicLink |-> 64]

\* (stat.type & vscode.FileType.Directory) === vscode.FileType.Directory
\* Mutant: the type is compared with Directory as a whole.
HasDirectoryBit_WholeType(type) == type = FileType.Directory

HasDirectoryBit(type) == (type \div FileType.Directory) % 2 = 1

\* The resources a selection is made of and the types stat answers with: a
\* file, a directory, a link to a file, a link to a directory, unknown.
SeparateChoices ==
    [uris |-> {File.aJs, File.y, Dir.sub},
     types |-> {FileType.Unknown, FileType.File, FileType.Directory,
                FileType.SymbolicLink + FileType.File,
                FileType.SymbolicLink + FileType.Directory}]

\* What stat answered: a type, or a rejection.
StatOk(type) == [ok |-> TRUE, type |-> type]
StatFailed == [ok |-> FALSE, type |-> FileType.Unknown]

SepIdle ==
    /\ uris = <<>>
    /\ spc = "idle"
    /\ stats = <<>>
    /\ sepFiles = <<>>
    /\ sepFolders = <<>>

\* The stat of the next resource resolves: the resource is pushed to folders or
\* to files (lines 290-298).
StatResolves(type) ==
    /\ spc = "loop"
    /\ Len(stats) < Len(uris)
    /\ stats' = Append(stats, StatOk(type))
    /\ IF HasDirectoryBit(type)
       THEN sepFolders' = Append(sepFolders, uris[Len(stats) + 1]) /\ sepFiles' = sepFiles
       ELSE sepFiles' = Append(sepFiles, uris[Len(stats) + 1]) /\ sepFolders' = sepFolders
    /\ UNCHANGED <<uris, spc>>
    /\ UNCHANGED notSep

\* The stat of the next resource rejects: the resource is skipped (lines 299-301).
StatRejects ==
    /\ spc = "loop"
    /\ Len(stats) < Len(uris)
    /\ stats' = Append(stats, StatFailed)
    /\ UNCHANGED <<uris, spc, sepFiles, sepFolders>>
    /\ UNCHANGED notSep

\* The loop is over: { files, folders } is returned (line 304).
SeparateReturns ==
    /\ spc = "loop"
    /\ Len(stats) = Len(uris)
    /\ spc' = "done"
    /\ UNCHANGED <<uris, stats, sepFiles, sepFolders>>
    /\ UNCHANGED notSep

----------------------------------------------------------------------------
(* processGlobPatterns, processFoldersContent, copyContentToClipboard *)

\* The loop over a file list that keeps, for every lower-cased path, the first
\* file that has it; Array.from(uniqueFiles.values()) lists them in that order.
\* Mutant: the key is the path as it is written.
RECURSIVE UniqueFiles_ExactPath(_)
UniqueFiles_ExactPath(fs) ==
    IF fs = <<>> THEN <<>>
    ELSE LET init == UniqueFiles_ExactPath(SubSeq(fs, 1, Len(fs) - 1))
             last == fs[Len(fs)]
         IN  IF \E i \in 1..Len(init) : init[i] = last THEN init ELSE Append(init, last)

RECURSIVE UniqueFiles(_)
UniqueFiles(fs) ==
    IF fs = <<>> THEN <<>>
    ELSE LET init == UniqueFiles(SubSeq(fs, 1, Len(fs) - 1))
             last == fs[Len(fs)]
         IN  IF \E i \in 1..Len(init) : ToLowerCase(init[i]) = ToLowerCase(last)
             THEN init
             ELSE Append(init, last)

\* patterns.map(pattern => isRecursive ? `**/${pattern}` : pattern)
AdjustedPattern(pattern, recursive) ==
    IF recursive THEN <<"*", "*", "/">> \o pattern ELSE pattern

\* The single glob of the main path (lines 583-585).
CombinedPattern(ps, recursive) ==
    IF Len(ps) > 1
    THEN <<"{">> \o Join([k \in 1..Len(ps) |-> AdjustedPattern(ps[k], recursive)], ",")
             \o <<"}">>
    ELSE AdjustedPattern(ps[1], recursive)

\* The host's glob matching, for the globs the model builds. One path component
\* against one glob component: `*` any run of characters, `?` one character.
RECURSIVE WildMatch(_, _)
WildMatch(pat, str) ==
    IF pat = <<>> THEN str = <<>>
    ELSE IF Head(pat) = "*"
         THEN WildMatch(Tail(pat), str) \/ (str # <<>> /\ WildMatch(pat, Tail(str)))
    ELSE IF str = <<>> THEN FALSE
    ELSE IF Head(pat) = "?" \/ Head(pat) = Head(str) THEN WildMatch(Tail(pat), Tail(str))
    ELSE FALSE

\* The alternatives of a glob: its first brace group, if it has one, written out.
GlobAlternatives(glob) ==
    LET open == IndexOfFrom(glob, "{", 1)
        close == IF open = 0 THEN 0 ELSE IndexOfFrom(glob, "}", open + 1)
    IN  IF open = 0 \/ close = 0 THEN <<glob>>
        ELSE LET options == Split(SubSeq(glob, open + 1, close - 1), ",")
             IN  [k \in 1..Len(options) |->
                     SubSeq(glob, 1, open - 1) \o options[k]
                         \o SubSeq(glob, close + 1, Len(glob))]

\* One alternative against the components of a relative path: a leading `**/`
\* stands for any number of directories.
AlternativeAccepts(alt, comps) ==
    LET deep == StartsWith(alt, <<"*", "*", "/">>)
        gc == Split(IF deep THEN SubSeq(alt, 4, Len(alt)) ELSE alt, "/")
        from(start) ==
            /\ Len(comps) - start + 1 = Len(gc)
            /\ \A j \in 1..Len(gc) : WildMatch(gc[j], comps[start + j - 1])
    IN  IF deep THEN \E start \in 1..Len(comps) : from(start) ELSE from(1)

GlobAccepts(glob, comps) ==
    \E k \in 1..Len(GlobAlternatives(glob)) :
        AlternativeAccepts(GlobAlternatives(glob)[k], comps)

\* An exclude glob drops a file when it accepts the file or a directory above it.
GlobExcludes(exclude, comps) ==
    /\ exclude.some
    /\ \E k \in 1..Len(comps) : GlobAccepts(exclude.v, SubSeq(comps, 1, k))

\* The files the host can list, in its order: those of the workspace, of which
\* the paths of two differ in letter case only, and one below a directory that
\* lies in no workspace folder.
FileSystem == WorkspaceFiles \o <<File.upperSubX, File.outsideX>>

\* vscode.workspace.getWorkspaceFolder(uri): the workspace folder the resource
\* lies in, or undefined.
GetWorkspaceFolder(fsPath) ==
    IF fsPath = WS_ROOT \/ StartsWith(fsPath, WS_ROOT \o <<SEP>>) THEN Some(WS_ROOT) ELSE None

\* vscode.workspace.findFiles(new RelativePattern(base, glob), exclude): the
\* files below base whose path relative to base the glob accepts, without those
\* the exclude glob drops (it reads paths relative to the workspace folder).
FindFiles(base, glob, exclude) ==
    LET found(f) ==
            /\ StartsWith(f, base \o <<SEP>>)
            /\ GlobAccepts(glob, Split(SubSeq(f, Len(base) + 2, Len(f)), SEP))
            /\ ~GlobExcludes(exclude, Split(AsRelativePath(f), SEP))
    IN  SelectSeq(FileSystem, found)

\* The values the runs of the walk start from: the directly selected files, the
\* selected folders, the pattern list getFilePatterns returned (the two patterns
\* of `*.tmp,x.*` both accept x.tmp), the custom-exclude setting, the
\* files.exclude setting, and the maps findAllGitignoreFiles returns. Of the
\* files selected directly, the host setting `build` excludes build/o.js and
\* any/build/o.js from a walk, the custom setting `any` any/build/o.js, and the
\* rules of the second map ignore build/o.js and x.tmp below `sub`.
WalkChoices ==
    [selectedFiles |-> {<<>>, <<File.upperSubX, File.buildO>>,
                        <<File.anyBuildO, File.buildO, File.subX, File.upperSubX, File.y>>},
     selectedFolders |-> {<<>>, <<WS_ROOT>>, <<WS_ROOT, Dir.sub>>, <<Dir.sub, WS_ROOT>>,
                          <<Dir.outside>>},
     filePatterns |-> {<<Glob.starTmp>>, <<Glob.starTmp, Glob.oStar>>,
                       <<Glob.starTmp, Glob.xStar>>},
     customExcludePatterns |-> {<<>>, Name.any},
     filesExclude |-> {None, Some(<<[pattern |-> Name.build, enabled |-> TRUE]>>)},
     gitignoreMap |-> {EmptyMap,
                       MapSet(MapSet(EmptyMap, WS_ROOT, Rule.build), Dir.sub, Rule.tmp)}]

\* The positions of the selected folders.
FolderIndices == UNION {DOMAIN fs : fs \in WalkChoices.selectedFolders}

\* One processGlobPatterns call that has not started. `exclude` holds the glob
\* buildExcludePattern returned to the call, `skipped` the positions of the
\* patterns whose findFiles request of the fallback rejected, `gitignoreMap`
\* the map findAllGitignoreFiles returned to the call (None before).
IdleWalk ==
    [pc |-> "idle", path |-> "main", next |-> 1, files |-> <<>>, result |-> <<>>,
     skipped |-> {}, exclude |-> None, gitignoreMap |-> None]

\* The exclude glob buildExcludePattern returns under the current settings
\* when the host lookups answer.
CurrentExclude ==
    CombineExcludes(MergedPatterns(respectVSCodeExcludes, filesExclude, searchExclude,
                                   customExcludePatterns, "none"))

\* The globs one call of buildExcludePattern can return under the current
\* settings: a host lookup that throws shortens the list of host patterns.
ExcludeOutcomes ==
    {CombineExcludes(MergedPatterns(respectVSCodeExcludes, filesExclude, searchExclude,
                                    customExcludePatterns, thrown)) :
        thrown \in IF respectVSCodeExcludes THEN LookupOutcomes ELSE {"none"}}

\* The states the catch block of a processGlobPatterns call can leave the call
\* in when it is entered (lines 610-620): at the first request of the fallback,
\* with the glob its buildExcludePattern call returned; or rejected, when a
\* lookup of that call threw, which no handler of processGlobPatterns guards.
CatchStarts ==
    {[IdleWalk EXCEPT !.pc = "fallback", !.path = "fallback", !.exclude = e] :
        e \in ExcludeOutcomes}
    \cup {[IdleWalk EXCEPT !.pc = "thrown", !.path = "fallback"]}

\* The states a processGlobPatterns call can be in when it first yields to the
\* host (lines 570-589 and 610-620): at the combined request, with the glob
\* buildExcludePattern returned; or, when a lookup before the request threw,
\* where the catch block leaves it.
WalkStarts ==
    {[IdleWalk EXCEPT !.pc = "find", !.exclude = e] : e \in ExcludeOutcomes}
    \cup CatchStarts

\* A message as the window shows it: showErrorMessage, showWarningMessage or
\* showInformationMessage with a text; the success text names the number of
\* files copied, the number filtered out, and the failed files it lists.
Notice(kind, text) ==
    [kind |-> kind, text |-> text, copied |-> 0, filteredOut |-> 0, failed |-> <<>>, more |-> 0]

\* What a step that leaves the processGlobPatterns calls in `next` does to the
\* command: when a call has rejected, Promise.all of processFoldersContent
\* rejects with it (line 655), and the catch of the command, unless the command
\* has returned already, shows the generic message (lines 851-854, 964-967).
\* No host request is awaited in between.
CommandAfterWalks(next) ==
    /\ IF cpc = "walk" /\ \E i \in DOMAIN next : next[i].pc = "thrown"
       THEN /\ cpc' = "ended"
            /\ notices' = Append(notices, Notice("error", "COPY_FAILED"))
       ELSE cpc' = cpc /\ notices' = notices
    /\ UNCHANGED <<command, clipboard>>

\* The state of a processGlobPatterns call on `folder` once its file list is
\* complete: the ignore-file lookup is awaited when respectGitignore is set and
\* the folder lies in a workspace folder, and otherwise the list is
\* deduplicated and returned.
AfterFind(walk, found, folder) ==
    IF respectGitignore /\ GetWorkspaceFolder(folder).some
    THEN [walk EXCEPT !.pc = "ignore", !.files = found]
    ELSE [walk EXCEPT !.pc = "done", !.files = found, !.result = UniqueFiles(found)]

\* copyContentToClipboard is not running.
WalkIdle ==
    /\ selectedFiles = <<>>
    /\ selectedFolders = <<>>
    /\ filePatterns = <<>>
    /\ respectGitignore = TRUE
    /\ isRecursive = FALSE
    /\ wpc = "idle"
    /\ walks = <<>>
    /\ folderFiles = <<>>
    /\ allFilesToProcess = <<>>
    /\ finalFiles = <<>>

\* Mutant: the directly selected files pass the exclusion glob as well.
SelectionFiltered_Excluding ==
    /\ wpc = "init"
    /\ allFilesToProcess' =
          IF Len(selectedFiles) > 0
          THEN SelectSeq(FilterFilesByPatterns(selectedFiles, filePatterns),
                         LAMBDA f : ~GlobExcludes(CurrentExclude, Split(AsRelativePath(f), SEP)))
          ELSE <<>>
    /\ IF Len(selectedFolders) > 0
       THEN wpc' = "pick" /\ finalFiles' = finalFiles
       ELSE wpc' = "final" /\ finalFiles' = UniqueFiles(allFilesToProcess')
    /\ UNCHANGED <<selectedFiles, selectedFolders, filePatterns, respectGitignore,
                   isRecursive, walks, folderFiles>>
    /\ UNCHANGED notWalk

\* copyContentToClipboard from the pattern list on (lines 881-888): the directly
\* selected files are filtered; without a selected folder the final list is
\* built at once (lines 914-924), with one the quick pick is shown.
SelectionFiltered ==
    /\ wpc = "init"
    /\ allFilesToProcess' = IF Len(selectedFiles) > 0
                            THEN FilterFilesByPatterns(selectedFiles, filePatterns)
                            ELSE <<>>
    /\ IF Len(selectedFolders) > 0
       THEN wpc' = "pick" /\ finalFiles' = finalFiles
       ELSE wpc' = "final" /\ finalFiles' = UniqueFiles(allFilesToProcess')
    /\ UNCHANGED <<selectedFiles, selectedFolders, filePatterns, respectGitignore,
                   isRecursive, walks, folderFiles>>
    /\ UNCHANGED notWalk

\* The quick pick is answered (lines 909-911): processFoldersContent starts one
\* processGlobPatterns call per folder, each up to its first findFiles request
\* or, when its lookups threw, to its rejection, which ends the command.
QuickPickAnswered(recursive) ==
    /\ wpc = "pick"
    /\ wpc' = "walking"
    /\ isRecursive' = recursive
    /\ walks' \in [1..Len(selectedFolders) -> WalkStarts]
    /\ CommandAfterWalks(walks')
    /\ UNCHANGED <<selectedFiles, selectedFolders, filePatterns, respectGitignore,
                   folderFiles, allFilesToProcess, finalFiles>>
    /\ UNCHANGED notWalkCmd

\* The single findFiles request of call i resolves (lines 586-609).
FindFilesResolves(i) ==
    /\ wpc = "walking"
    /\ i \in DOMAIN walks
    /\ walks[i].pc = "find"
    /\ walks' = [walks EXCEPT ![i] =
          AfterFind(@, FindFiles(selectedFolders[i],
                                 CombinedPattern(filePatterns, isRecursive), @.exclude),
                    selectedFolders[i])]
    /\ UNCHANGED <<selectedFiles, selectedFolders, filePatterns, respectGitignore,
                   isRecursive, wpc, folderFiles, allFilesToProcess, finalFiles>>
    /\ UNCHANGED notWalk

\* The try block of call i throws after its request was issued: the request
\* rejects, or it resolves and the settings lookup that follows throws
\* (line 593). The catch builds the exclusion glob anew and the call goes on
\* pattern by pattern, without the files of the combined request
\* (lines 610-615); when a lookup of the catch block throws, the call rejects.
MainPathThrows(i) ==
    /\ wpc = "walking"
    /\ i \in DOMAIN walks
    /\ walks[i].pc = "find"
    /\ \E start \in CatchStarts : walks' = [walks EXCEPT ![i] = start]
    /\ CommandAfterWalks(walks')
    /\ UNCHANGED <<selectedFiles, selectedFolders, filePatterns, respectGitignore,
                   isRecursive, wpc, folderFiles, allFilesToProcess, finalFiles>>
    /\ UNCHANGED notWalkCmd

\* The state of the call on `folder` after the request for its pattern number
\* `next` settled with the list allFiles.
FallbackStep(walk, allFiles, folder) ==
    IF walk.next = Len(filePatterns)
    THEN AfterFind(walk, allFiles, folder)
    ELSE [walk EXCEPT !.next = @ + 1, !.files = allFiles]

\* One findFiles request of the fallback resolves: its files are appended
\* (lines 616-623).
FallbackFindResolves(i) ==
    /\ wpc = "walking"
    /\ i \in DOMAIN walks
    /\ walks[i].pc = "fallback"
    /\ walks' = [walks EXCEPT ![i] =
          FallbackStep(@, @.files \o
              FindFiles(selectedFolders[i],
                        AdjustedPattern(filePatterns[@.next], isRecursive), @.exclude),
              selectedFolders[i])]
    /\ UNCHANGED <<selectedFiles, selectedFolders, filePatterns, respectGitignore,
                   isRecursive, wpc, folderFiles, allFilesToProcess, finalFiles>>
    /\ UNCHANGED notWalk

\* Mutant: the rejected request leaves the call without the files of the
\* patterns before it.
FallbackFindRejects_DropsCollected(i) ==
    /\ wpc = "walking"
    /\ i \in DOMAIN walks
    /\ walks[i].pc = "fallback"
    /\ walks' = [walks EXCEPT ![i] =
          FallbackStep([@ EXCEPT !.skipped = @ \cup {walks[i].next}], <<>>,
                       selectedFolders[i])]
    /\ UNCHANGED <<selectedFiles, selectedFolders, filePatterns, respectGitignore,
                   isRecursive, wpc, folderFiles, allFilesToProcess, finalFiles>>
    /\ UNCHANGED notWalk

\* One findFiles request of the fallback rejects: the pattern is skipped
\* (lines 624-626).
FallbackFindRejects(i) ==
    /\ wpc = "walking"
    /\ i \in DOMAIN walks
    /\ walks[i].pc = "fallback"
    /\ walks' = [walks EXCEPT ![i] =
          FallbackStep([@ EXCEPT !.skipped = @ \cup {walks[i].next}], walks[i].files,
                       selectedFolders[i])]
    /\ UNCHANGED <<selectedFiles, selectedFolders, filePatterns, respectGitignore,
                   isRecursive, wpc, folderFiles, allFilesToProcess, finalFiles>>
    /\ UNCHANGED notWalk

\* The last findFiles request of the fallback of call i settles, and the
\* settings lookup after the loop throws (lines 629-630): no handler of
\* processGlobPatterns guards it, and the call rejects.
FallbackLookupThrows(i) ==
    /\ wpc = "walking"
    /\ i \in DOMAIN walks
    /\ walks[i].pc = "fallback"
    /\ walks[i].next = Len(filePatterns)
    /\ walks' = [walks EXCEPT ![i] = [@ EXCEPT !.pc = "thrown"]]
    /\ CommandAfterWalks(walks')
    /\ UNCHANGED <<selectedFiles, selectedFolders, filePatterns, respectGitignore,
                   isRecursive, wpc, folderFiles, allFilesToProcess, finalFiles>>
    /\ UNCHANGED notWalkCmd

\* findAllGitignoreFiles returns its map to call i: the files are filtered and
\* deduplicated, and the call returns (lines 593-609 and 632-646).
GitignoreMapReturned(i, map) ==
    /\ wpc = "walking"
    /\ i \in DOMAIN walks
    /\ walks[i].pc = "ignore"
    /\ LET workspaceFolder == GetWorkspaceFolder(selectedFolders[i])
           kept == FilterFilesWithGitignore(walks[i].files, workspaceFolder.v, map).kept
       IN  walks' = [walks EXCEPT ![i] =
               [@ EXCEPT !.pc = "done", !.gitignoreMap = Some(map), !.files = kept,
                         !.result = UniqueFiles(kept)]]
    /\ UNCHANGED <<selectedFiles, selectedFolders, filePatterns, respectGitignore,
                   isRecursive, wpc, folderFiles, allFilesToProcess, finalFiles>>
    /\ UNCHANGED notWalk

\* Mutant: the results are taken from the last folder to the first.
FolderResults_LastFirst ==
    Flatten([i \in 1..Len(walks) |-> walks[Len(walks) + 1 - i].result])

\* folderResults, in folder order, as one list.
FolderResults == Flatten([i \in 1..Len(walks) |-> walks[i].result])

\* Promise.all of processFoldersContent resolves: the results are merged
\* (lines 657-668).
FoldersMerged ==
    /\ wpc = "walking"
    /\ \A i \in DOMAIN walks : walks[i].pc = "done"
    /\ wpc' = "merged"
    /\ folderFiles' = UniqueFiles(FolderResults)
    /\ UNCHANGED <<selectedFiles, selectedFolders, filePatterns, respectGitignore,
                   isRecursive, walks, allFilesToProcess, finalFiles>>
    /\ UNCHANGED notWalk

\* copyContentToClipboard takes the folder files and builds the final list
\* (lines 910-924).
FinalListBuilt ==
    /\ wpc = "merged"
    /\ wpc' = "final"
    /\ allFilesToProcess' = allFilesToProcess \o folderFiles
    /\ finalFiles' = UniqueFiles(allFilesToProcess')
    /\ UNCHANGED <<selectedFiles, selectedFolders, filePatterns, respectGitignore,
                   isRecursive, walks, folderFiles>>
    /\ UNCHANGED notWalk

----------------------------------------------------------------------------
(* copyFileToClipboard, copyFolderToClipboard, copyContentToClipboard *)

\* The values the runs of a command start from and meet: the command, the
\* selection, the allow-pattern setting, the texts typed into the input box, the
\* types stat answers with, the texts a read delivers, the maps
\* findAllGitignoreFiles returns, and the positions of a file in a batch.
CommandChoices ==
    [commands |-> {"copyFile", "copyFolder", "copyContent"},
     uris |-> {<<>>, <<File.y>>, <<Dir.sub>>, <<File.y, Dir.sub>>, <<File.y, File.subX>>},
     allowedFilePatterns |-> {None, Some(Glob.starLog), Some(Glob.parentDir)},
     typed |-> {Glob.starTmp, <<"~">>},
     types |-> {FileType.File, FileType.Directory},
     texts |-> {<<>>, <<"1">>},
     gitignoreMap |-> {EmptyMap, MapSet(EmptyMap, WS_ROOT, Rule.tmp)},
     indices |-> 1..Len(FileSystem)]

\* The message after the clipboard was written (lines 730-757, 829-846, 936-959):
\* a warning with the failed files (the first three, and how many more) when a
\* read failed, an information message otherwise.
SuccessNotice(selected, batch, result) ==
    [kind |-> IF result.errors > 0 THEN "warning" ELSE "information",
     text |-> "COPIED",
     copied |-> Len(batch),
     filteredOut |-> IF command = "copyFile" THEN Len(selected) - Len(batch) ELSE 0,
     failed |-> IF Len(result.failedFiles) <= 3 THEN result.failedFiles
                ELSE SubSeq(result.failedFiles, 1, 3),
     more |-> IF Len(result.failedFiles) <= 3 THEN 0 ELSE Len(result.failedFiles) - 3]

CmdIdle ==
    /\ command = ""
    /\ cpc = "idle"
    /\ notices = <<>>
    /\ clipboard = None

\* The command returns after showing a message.
EndsWith(notice) ==
    /\ cpc' = "ended"
    /\ notices' = Append(notices, notice)

\* readFilesContent is called on a list: the reads are about to be issued.
StartsReading(list) ==
    /\ cpc' = "read"
    /\ files' = [i \in 1..Len(list) |-> AsRelativePath(list[i])]
    /\ rpc' = "init"
    /\ pending' = {}
    /\ results' = [i \in 1..Len(list) |-> NoResult]
    /\ delivered' = [i \in 1..Len(list) |-> NotDelivered]
    /\ outcome' = NoOutcome
    /\ notices' = notices

\* The command is invoked: an empty selection ends it, any other is handed to
\* separateFilesAndFolders (lines 690-698, 769-777, 859-867).
CommandInvoked ==
    /\ cpc = "init"
    /\ IF uris = <<>>
       THEN /\ EndsWith(Notice("error",
                   CASE command = "copyFile" -> "NO_FILES_SELECTED"
                     [] command = "copyFolder" -> "NO_FOLDER_SELECTED"
                     [] command = "copyContent" -> "NO_ITEMS_SELECTED"))
            /\ spc' = spc
       ELSE /\ cpc' = "stat"
            /\ spc' = "loop"
            /\ notices' = notices
    /\ UNCHANGED <<command, clipboard, uris, stats, sepFiles, sepFolders>>
    /\ UNCHANGED <<readVars, patVars, exVars, ignVars, walkVars, matchVars>>

\* separateFilesAndFolders has returned: the command checks what it got and
\* goes on to getFilePatterns, or, in copyFolderToClipboard, to the quick pick
\* (lines 700-711, 779-802, 869-874).
SelectionSeparated ==
    /\ cpc = "stat"
    /\ spc = "done"
    /\ CASE command = "copyFile" ->
              IF sepFiles = <<>>
              THEN /\ EndsWith(Notice("error", IF sepFolders # <<>>
                                               THEN "ONLY_FOLDERS_SELECTED"
                                               ELSE "NO_FILES_SELECTED"))
                   /\ gpc' = gpc
              ELSE cpc' = "patterns" /\ gpc' = "init" /\ notices' = notices
         [] command = "copyFolder" ->
              IF sepFolders = <<>>
              THEN /\ EndsWith(Notice("error", IF sepFiles # <<>>
                                               THEN "ONLY_FILES_SELECTED"
                                               ELSE "NO_FOLDER_SELECTED"))
                   /\ gpc' = gpc
              ELSE cpc' = "pick" /\ gpc' = gpc /\ notices' = notices
         [] command = "copyContent" ->
              IF sepFiles = <<>> /\ sepFolders = <<>>
              THEN /\ EndsWith(Notice("error", "NO_VALID_ITEMS_SELECTED"))
                   /\ gpc' = gpc
              ELSE cpc' = "patterns" /\ gpc' = "init" /\ notices' = notices
    /\ UNCHANGED <<command, clipboard, allowedFilePatterns, boxValue, boxMessage, patternSet,
                   shown>>
    /\ UNCHANGED <<readVars, exVars, ignVars, walkVars, matchVars, sepVars>>

\* The quick pick of copyFolderToClipboard is answered: getFilePatterns is called
\* (lines 804-811).
FolderPickAnswered(recursive) ==
    /\ command = "copyFolder"
    /\ cpc = "pick"
    /\ cpc' = "patterns"
    /\ gpc' = "init"
    /\ isRecursive' = recursive
    /\ UNCHANGED <<command, notices, clipboard, allowedFilePatterns, boxValue, boxMessage,
                   patternSet, shown>>
    /\ UNCHANGED <<selectedFiles, selectedFolders, filePatterns, respectGitignore, wpc, walks,
                   folderFiles, allFilesToProcess, finalFiles>>
    /\ UNCHANGED <<readVars, exVars, ignVars, matchVars, sepVars>>

\* The quick pick is open: in copyFolderToClipboard, or in copyContentToClipboard
\* with a folder selected.
QuickPickOpen ==
    \/ command = "copyFolder" /\ cpc = "pick"
    \/ command = "copyContent" /\ cpc = "walk" /\ wpc = "pick"

\* The quick pick is dismissed: the command tells so and returns (lines 803-807,
\* 904-908).
\* Mutant: the command tells so with showErrorMessage.
PickDismissed_AsError ==
    /\ QuickPickOpen
    /\ EndsWith(Notice("error", "OPERATION_CANCELLED"))
    /\ wpc' = "cancelled"
    /\ UNCHANGED <<command, clipboard>>
    /\ UNCHANGED <<selectedFiles, selectedFolders, filePatterns, respectGitignore, isRecursive,
                   walks, folderFiles, allFilesToProcess, finalFiles>>
    /\ UNCHANGED <<readVars, patVars, exVars, ignVars, matchVars, sepVars>>

PickDismissed ==
    /\ QuickPickOpen
    /\ EndsWith(Notice("information", "OPERATION_CANCELLED"))
    /\ wpc' = "cancelled"
    /\ UNCHANGED <<command, clipboard>>
    /\ UNCHANGED <<selectedFiles, selectedFolders, filePatterns, respectGitignore, isRecursive,
                   walks, folderFiles, allFilesToProcess, finalFiles>>
    /\ UNCHANGED <<readVars, patVars, exVars, ignVars, matchVars, sepVars>>

\* getFilePatterns has returned (lines 713-726, 806-817, 874-879): without a
\* pattern the command ends; copyFileToClipboard filters the selected files and
\* reads what is left; copyFolderToClipboard calls processFoldersContent, which
\* starts one processGlobPatterns call per folder, and the command ends with the
\* generic message when one of them rejects before its first request;
\* copyContentToClipboard goes on to filter the directly selected files.
PatternsReturned ==
    /\ cpc = "patterns"
    /\ gpc = "done"
    /\ IF ~patternSet.some \/ patternSet.v = <<>>
       THEN /\ EndsWith(Notice("error", "NO_PATTERNS_SPECIFIED"))
            /\ UNCHANGED <<readVars, walkVars>>
       ELSE CASE command = "copyFile" ->
                   /\ IF FilterFilesByPatterns(sepFiles, patternSet.v) = <<>>
                      THEN /\ EndsWith(Notice("error", "NO_MATCHING_FILES"))
                           /\ UNCHANGED readVars
                      ELSE StartsReading(FilterFilesByPatterns(sepFiles, patternSet.v))
                   /\ UNCHANGED walkVars
              [] command = "copyFolder" ->
                   /\ selectedFolders' = sepFolders
                   /\ filePatterns' = patternSet.v
                   /\ wpc' = "walking"
                   /\ walks' \in [1..Len(sepFolders) -> WalkStarts]
                   /\ IF \E i \in DOMAIN walks' : walks'[i].pc = "thrown"
                      THEN EndsWith(Notice("error", "COPY_FAILED"))
                      ELSE cpc' = "walk" /\ notices' = notices
                   /\ UNCHANGED <<selectedFiles, respectGitignore, isRecursive,
                                  folderFiles, allFilesToProcess, finalFiles>>
                   /\ UNCHANGED readVars
              [] command = "copyContent" ->
                   /\ cpc' = "walk"
                   /\ selectedFiles' = sepFiles
                   /\ selectedFolders' = sepFolders
                   /\ filePatterns' = patternSet.v
                   /\ wpc' = "init"
                   /\ walks' = [i \in 1..Len(sepFolders) |-> IdleWalk]
                   /\ UNCHANGED <<notices, respectGitignore, isRecursive, folderFiles,
                                  allFilesToProcess, finalFiles>>
                   /\ UNCHANGED readVars
    /\ UNCHANGED <<command, clipboard>>
    /\ UNCHANGED <<patVars, exVars, ignVars, matchVars, sepVars>>

\* The file list is complete: what processFoldersContent returned in
\* copyFolderToClipboard, the final list in copyContentToClipboard. An empty list
\* ends the command, any other is read (lines 813-819, 919-926).
FilesCollected ==
    /\ cpc = "walk"
    /\ \/ command = "copyFolder" /\ wpc = "merged"
       \/ command = "copyContent" /\ wpc = "final"
    /\ LET list == IF command = "copyFolder" THEN folderFiles ELSE finalFiles
       IN  IF list = <<>>
           THEN /\ EndsWith(Notice("error", IF command = "copyFolder"
                                            THEN "NO_MATCHING_FOLDER_FILES"
                                            ELSE "NO_MATCHING_FILES"))
                /\ UNCHANGED readVars
           ELSE StartsReading(list)
    /\ UNCHANGED <<command, clipboard>>
    /\ UNCHANGED <<patVars, exVars, ignVars, walkVars, matchVars, sepVars>>

\* Mutant: the content is written to the clipboard whatever it is.
ReadsReturned_AlwaysWrites ==
    /\ cpc = "read"
    /\ rpc = "done"
    /\ cpc' = "write"
    /\ notices' = notices
    /\ UNCHANGED <<command, clipboard>>
    /\ UNCHANGED <<readVars, patVars, exVars, ignVars, walkVars, matchVars, sepVars>>

\* readFilesContent has returned: content that is not empty is written to the
\* clipboard, empty content ends the command (lines 720-722, 821-823, 928-930 and
\* the else branches).
ReadsReturned ==
    /\ cpc = "read"
    /\ rpc = "done"
    /\ IF outcome.content # <<>>
       THEN cpc' = "write" /\ notices' = notices
       ELSE EndsWith(Notice("error", "READ_FAILED"))
    /\ UNCHANGED <<command, clipboard>>
    /\ UNCHANGED <<readVars, patVars, exVars, ignVars, walkVars, matchVars, sepVars>>

\* clipboard.writeText resolves: the success message is shown (lines 722-757,
\* 823-846, 930-959).
ClipboardWritten ==
    /\ cpc = "write"
    /\ clipboard' = Some(outcome.content)
    /\ EndsWith(SuccessNotice(sepFiles, files, outcome))
    /\ UNCHANGED command
    /\ UNCHANGED <<readVars, patVars, exVars, ignVars, walkVars, matchVars, sepVars>>

\* Mutant: the commands have no catch; the exception ends the command and leaves
\* it, and no message is shown.
CollaboratorThrows_Escapes ==
    /\ \/ cpc = "patterns" /\ gpc = "init" /\ gpc' = "thrown" /\ UNCHANGED <<wpc, walks>>
       \/ cpc = "patterns" /\ gpc = "prompt" /\ gpc' = "thrown" /\ UNCHANGED <<wpc, walks>>
       \/ QuickPickOpen /\ wpc' = "thrown" /\ UNCHANGED <<gpc, walks>>
       \/ cpc = "write" /\ UNCHANGED <<gpc, wpc, walks>>
    /\ cpc' = "ended"
    /\ notices' = notices
    /\ UNCHANGED <<command, clipboard, allowedFilePatterns, boxValue, boxMessage, patternSet,
                   shown>>
    /\ UNCHANGED <<selectedFiles, selectedFolders, filePatterns, respectGitignore, isRecursive,
                   folderFiles, allFilesToProcess, finalFiles>>
    /\ UNCHANGED <<readVars, exVars, ignVars, matchVars, sepVars>>

\* A call that no inner handler guards throws or rejects, and the catch of the
\* command shows the generic message (lines 761-764, 851-854, 964-967): the
\* configuration lookup of getFilePatterns, the input box, the quick pick, the
\* clipboard. The call that threw does not go on: the quick pick is closed.
CollaboratorThrows ==
    /\ \/ cpc = "patterns" /\ gpc = "init" /\ gpc' = "thrown" /\ UNCHANGED <<wpc, walks>>
       \/ cpc = "patterns" /\ gpc = "prompt" /\ gpc' = "thrown" /\ UNCHANGED <<wpc, walks>>
       \/ QuickPickOpen /\ wpc' = "thrown" /\ UNCHANGED <<gpc, walks>>
       \/ cpc = "write" /\ UNCHANGED <<gpc, wpc, walks>>
    /\ EndsWith(Notice("error", "COPY_FAILED"))
    /\ UNCHANGED <<command, clipboard, allowedFilePatterns, boxValue, boxMessage, patternSet,
                   shown>>
    /\ UNCHANGED <<selectedFiles, selectedFolders, filePatterns, respectGitignore, isRecursive,
                   folderFiles, allFilesToProcess, finalFiles>>
    /\ UNCHANGED <<readVars, exVars, ignVars, matchVars, sepVars>>

----------------------------------------------------------------------------
(* Specifications *)

\* readFilesContent on a batch.
InitRead ==
    /\ files \in SeqsUpTo(RelPaths, MaxBatch)
    /\ rpc = "init"
    /\ pending = {}
    /\ results = [i \in 1..Len(files) |-> NoResult]
    /\ delivered = [i \in 1..Len(files) |-> NotDelivered]
    /\ outcome = NoOutcome
    /\ PatIdle /\ ExIdle /\ IgnIdle /\ WalkIdle /\ MatchIdle /\ SepIdle /\ CmdIdle
SpecRead == InitRead /\ [][ReadNext]_vars

\* Pattern validation: getFilePatterns on a configuration, or buildExcludePattern
\* on a configuration.
InitValidate ==
    \/ PatInit /\ ExIdle /\ ReadIdle /\ IgnIdle /\ WalkIdle /\ MatchIdle /\ SepIdle /\ CmdIdle
    \/ ExInit /\ PatIdle /\ ReadIdle /\ IgnIdle /\ WalkIdle /\ MatchIdle /\ SepIdle /\ CmdIdle
ValidateNext ==
    \/ GetConfiguredPatterns
    \/ OpenInputBox
    \/ \E value \in TypedInputs : TypeInput(value)
    \/ AcceptInput
    \/ DismissInput
    \/ \E thrown \in LookupOutcomes : BuildExcludePattern(thrown)
    \/ BuildExcludePatternThrows
SpecValidate == InitValidate /\ [][ValidateNext]_vars

\* Ignore-rule resolution: findAllGitignoreFiles, then filterFilesWithGitignore.
InitIgnore ==
    /\ gitignoreFiles \in GitignoreLists
    /\ candidates \in CandidateLists
    /\ ipc = "init"
    /\ giPending = {}
    /\ giRead = {}
    /\ giDelivered = <<>>
    /\ gitignoreMap = EmptyMap
    /\ ignoreCache = EmptyMap
    /\ filtered = <<>>
    /\ ReadIdle /\ PatIdle /\ ExIdle /\ WalkIdle /\ MatchIdle /\ SepIdle /\ CmdIdle
IgnoreNext ==
    \/ GitignoresFound
    \/ GitignoreSearchFails
    \/ \E i \in 1..Len(GitignorePaths), text \in GitignoreTexts : GitignoreRead(i, text)
    \/ \E i \in 1..Len(GitignorePaths) : GitignoreReadFails(i)
    \/ FilterWithGitignore
SpecIgnore == InitIgnore /\ [][IgnoreNext]_vars

\* The walk of copyContentToClipboard: from the pattern list to the final list.
\* The settings are those buildExcludePattern reads during the walk.
InitWalk ==
    /\ selectedFiles \in WalkChoices.selectedFiles
    /\ selectedFolders \in WalkChoices.selectedFolders
    /\ Len(selectedFiles) + Len(selectedFolders) > 0
    /\ filePatterns \in WalkChoices.filePatterns
    /\ respectGitignore \in BOOLEAN
    /\ isRecursive = FALSE
    /\ wpc = "init"
    /\ walks = [i \in 1..Len(selectedFolders) |-> IdleWalk]
    /\ folderFiles = <<>>
    /\ allFilesToProcess = <<>>
    /\ finalFiles = <<>>
    /\ respectVSCodeExcludes = TRUE
    /\ filesExclude \in WalkChoices.filesExclude
    /\ searchExclude = None
    /\ customExcludePatterns \in WalkChoices.customExcludePatterns
    /\ xpc = "idle"
    /\ hostThrown = "none"
    /\ allPatterns = <<>>
    /\ excludePattern = None
    /\ command = "copyContent"
    /\ cpc = "walk"
    /\ notices = <<>>
    /\ clipboard = None
    /\ ReadIdle /\ PatIdle /\ IgnIdle /\ MatchIdle /\ SepIdle
WalkNext ==
    \/ SelectionFiltered
    \/ \E recursive \in BOOLEAN : QuickPickAnswered(recursive)
    \/ PickDismissed
    \/ CollaboratorThrows
    \/ \E i \in FolderIndices : FindFilesResolves(i)
    \/ \E i \in FolderIndices : MainPathThrows(i)
    \/ \E i \in FolderIndices : FallbackFindResolves(i)
    \/ \E i \in FolderIndices : FallbackFindRejects(i)
    \/ \E i \in FolderIndices : FallbackLookupThrows(i)
    \/ \E i \in FolderIndices, map \in WalkChoices.gitignoreMap :
          GitignoreMapReturned(i, map)
    \/ FoldersMerged
    \/ FinalListBuilt
SpecWalk == InitWalk /\ [][WalkNext]_vars

\* matchesPattern, then filterFilesByPatterns, on one path and one pattern list.
InitMatch ==
    /\ mPath \in MatchChoices.paths
    /\ mPatterns \in MatchChoices.patternLists
    /\ mpc = "init"
    /\ mResult = ""
    /\ mKept = None
    /\ ReadIdle /\ PatIdle /\ ExIdle /\ IgnIdle /\ WalkIdle /\ SepIdle /\ CmdIdle
MatchNext ==
    \/ MatchPath
    \/ FilterPath
SpecMatch == InitMatch /\ [][MatchNext]_vars

\* separateFilesAndFolders on a selection.
InitSeparate ==
    /\ uris \in SeqsUpTo(SeparateChoices.uris, MaxUris)
    /\ spc = "loop"
    /\ stats = <<>>
    /\ sepFiles = <<>>
    /\ sepFolders = <<>>
    /\ ReadIdle /\ PatIdle /\ ExIdle /\ IgnIdle /\ WalkIdle /\ MatchIdle /\ CmdIdle
SeparateNext ==
    \/ \E type \in SeparateChoices.types : StatResolves(type)
    \/ StatRejects
    \/ SeparateReturns
SpecSeparate == InitSeparate /\ [][SeparateNext]_vars

\* One invocation of a command on a selection, under a configuration.
InitCommand ==
    /\ command \in CommandChoices.commands
    /\ uris \in CommandChoices.uris
    /\ allowedFilePatterns \in CommandChoices.allowedFilePatterns
    /\ respectGitignore \in BOOLEAN
    /\ cpc = "init"
    /\ notices = <<>>
    /\ clipboard = None
    /\ spc = "idle"
    /\ stats = <<>>
    /\ sepFiles = <<>>
    /\ sepFolders = <<>>
    /\ gpc = "idle"
    /\ boxValue = <<>>
    /\ boxMessage = ""
    /\ patternSet = None
    /\ shown = <<>>
    /\ selectedFiles = <<>>
    /\ selectedFolders = <<>>
    /\ filePatterns = <<>>
    /\ isRecursive = FALSE
    /\ wpc = "idle"
    /\ walks = <<>>
    /\ folderFiles = <<>>
    /\ allFilesToProcess = <<>>
    /\ finalFiles = <<>>
    /\ ReadIdle /\ ExIdle /\ IgnIdle /\ MatchIdle
CommandNext ==
    \/ CommandInvoked
    \/ \E type \in CommandChoices.types : StatResolves(type)
    \/ StatRejects
    \/ SeparateReturns
    \/ SelectionSeparated
    \/ GetConfiguredPatterns
    \/ OpenInputBox
    \/ \E value \in CommandChoices.typed : TypeInput(value)
    \/ AcceptInput
    \/ DismissInput
    \/ PatternsReturned
    \/ \E recursive \in BOOLEAN : FolderPickAnswered(recursive)
    \/ PickDismissed
    \/ SelectionFiltered
    \/ \E recursive \in BOOLEAN : QuickPickAnswered(recursive)
    \/ \E i \in FolderIndices : FindFilesResolves(i)
    \/ \E i \in FolderIndices : MainPathThrows(i)
    \/ \E i \in FolderIndices : FallbackFindResolves(i)
    \/ \E i \in FolderIndices : FallbackFindRejects(i)
    \/ \E i \in FolderIndices : FallbackLookupThrows(i)
    \/ \E i \in FolderIndices, map \in CommandChoices.gitignoreMap : GitignoreMapReturned(i, map)
    \/ FoldersMerged
    \/ command = "copyContent" /\ FinalListBuilt
    \/ FilesCollected
    \/ IssueReads
    \/ \E i \in CommandChoices.indices, text \in CommandChoices.texts : ReadSucceeds(i, text)
    \/ \E i \in CommandChoices.indices : ReadFails(i)
    \/ JoinReads
    \/ ReadsReturned
    \/ ClipboardWritten
    \/ CollaboratorThrows
SpecCommand == InitCommand /\ [][CommandNext]_vars

----------------------------------------------------------------------------
(* Properties of readFilesContent *)

\* The block the output format prescribes for one file, written out.
SpecBlock(relativePath, text) ==
    <<"-", "-", "-", " ", "F", "i", "l", "e", ":", " ">> \o relativePath
        \o <<" ", "-", "-", "-", "\n">> \o text \o <<"\n", "\n">>

\* The blocks of the files from index i on whose read succeeded, in batch order.
RECURSIVE SpecBlocksFrom(_)
SpecBlocksFrom(i) ==
    IF i > Len(files) THEN <<>>
    ELSE (IF delivered[i].state = "ok" THEN SpecBlock(files[i], delivered[i].text) ELSE <<>>)
         \o SpecBlocksFrom(i + 1)

\* The relative paths of the files from index i on whose read failed, in batch order.
RECURSIVE SpecFailedFrom(_)
SpecFailedFrom(i) ==
    IF i > Len(files) THEN <<>>
    ELSE (IF delivered[i].state = "error" THEN <<files[i]>> ELSE <<>>)
         \o SpecFailedFrom(i + 1)

\* Number of places of the text where the header opening `--- File: ` starts.
CountBlocks(text) ==
    Cardinality({k \in 1..Len(text) :
        /\ k + 9 <= Len(text)
        /\ SubSeq(text, k, k + 9) = <<"-", "-", "-", " ", "F", "i", "l", "e", ":", " ">>})

AllDelivered == \A i \in 1..Len(files) : delivered[i].state = "ok"
FailedIndices == {i \in 1..Len(files) : delivered[i].state = "error"}

\* C1: a batch of n >= 2 files that are all read returns the concatenation, in
\* batch order, of `--- File: <relativePath> ---\n<content>\n\n`, with nothing
\* before the first header and nothing removed after the last block; for
\* a.js = "1", b.py = "2" the content is exactly the documented text.
C1_MultiFileFormat ==
    (rpc = "done" /\ Len(files) >= 2 /\ AllDelivered) =>
        /\ outcome.content = SpecBlocksFrom(1)
        /\ SubSeq(outcome.content, 1, 10)
               = <<"-", "-", "-", " ", "F", "i", "l", "e", ":", " ">>
        /\ SubSeq(outcome.content, Len(outcome.content) - 1, Len(outcome.content))
               = <<"\n", "\n">>
        /\ (/\ files = <<Name.aJs, Name.bPy>>
            /\ delivered[1].text = <<"1">>
            /\ delivered[2].text = <<"2">>)
            => outcome.content =
                  <<"-", "-", "-", " ", "F", "i", "l", "e", ":", " ", "a", ".", "j", "s",
                    " ", "-", "-", "-", "\n", "1", "\n", "\n",
                    "-", "-", "-", " ", "F", "i", "l", "e", ":", " ", "b", ".", "p", "y",
                    " ", "-", "-", "-", "\n", "2", "\n", "\n">>

C1_Witness ==
    /\ rpc = "done"
    /\ files = <<Name.aJs, Name.bPy>>
    /\ delivered[1] = [state |-> "ok", text |-> <<"1">>]
    /\ delivered[2] = [state |-> "ok", text |-> <<"2">>]
    /\ Len(outcome.content) = 44

\* C2: a batch of exactly one file that is read returns that file's decoded text
\* unmodified, with no header line and no trailing separator.
C2_SingleFileRaw ==
    (rpc = "done" /\ Len(files) = 1 /\ delivered[1].state = "ok") =>
        /\ outcome.content = delivered[1].text
        /\ outcome.errors = 0
        /\ outcome.failedFiles = <<>>

C2_Witness ==
    /\ rpc = "done"
    /\ files = <<Name.aJs>>
    /\ delivered[1] = [state |-> "ok", text |-> <<"1">>]
    /\ outcome.content = <<"1">>

\* C3 as claimed: for every batch and every set of failed reads the call ends,
\* errors is the number of failed reads, failedFiles is the failed paths in batch
\* order, errors plus the number of delimited blocks equals the batch size, and
\* content is exactly the blocks of the files that were read.
C3_AsClaimed ==
    /\ (rpc = "reading" /\ pending = {}) => ENABLED JoinReads
    /\ rpc = "done" =>
        /\ outcome.errors = Cardinality(FailedIndices)
        /\ outcome.failedFiles = SpecFailedFrom(1)
        /\ outcome.errors + CountBlocks(outcome.content) = Len(files)
        /\ outcome.content = SpecBlocksFrom(1)

\* C3 amended: the error count and the failure list are as claimed for every
\* batch; the block count and the delimited content are as claimed for batches
\* of at least two files; a batch of one file has no delimited block, its
\* content being the raw text when the read succeeded and empty when it failed.
C3_PartialFailure ==
    /\ (rpc = "reading" /\ pending = {}) => ENABLED JoinReads
    /\ rpc = "done" =>
        /\ outcome.errors = Cardinality(FailedIndices)
        /\ outcome.failedFiles = SpecFailedFrom(1)
        /\ Len(files) >= 2 =>
            /\ outcome.errors + CountBlocks(outcome.content) = Len(files)
            /\ outcome.content = SpecBlocksFrom(1)
        /\ Len(files) = 1 =>
            /\ CountBlocks(outcome.content) = 0
            /\ delivered[1].state = "ok" => outcome.content = delivered[1].text
            /\ delivered[1].state = "error" => outcome.content = <<>>

C3_Witness ==
    /\ rpc = "done"
    /\ Len(files) = 3
    /\ delivered[1].state = "ok"
    /\ delivered[2].state = "error"
    /\ delivered[3].state = "ok"
    /\ outcome.errors = 1
    /\ CountBlocks(outcome.content) = 2

----------------------------------------------------------------------------
(* Properties of validateFilePatterns, getFilePatterns, buildExcludePattern *)

\* The string getFilePatterns hands to the validator: the configured one, or the
\* text of the input box when nothing is configured.
SourceString ==
    IF ~IsBlank(allowedFilePatterns) THEN allowedFilePatterns.v ELSE boxValue

\* A part that contains `..`, starts with `/`, or contains `~`.
SpecUnsafePart(part) ==
    \/ \E k \in 1..(Len(part) - 1) : part[k] = "." /\ part[k + 1] = "."
    \/ (Len(part) >= 1 /\ part[1] = "/")
    \/ \E k \in 1..Len(part) : part[k] = "~"

\* Some comma-separated part of the string is unsafe (as written, or trimmed).
SpecUnsafe(str) ==
    \E i \in 1..Len(Split(str, ",")) :
        \/ SpecUnsafePart(Split(str, ",")[i])
        \/ SpecUnsafePart(Trim(Split(str, ",")[i]))

\* The patterns of the enabled entries of the two host settings.
SpecEnabledHost ==
    {filesExclude.v[i].pattern : i \in {k \in 1..Len(filesExclude.v) : filesExclude.v[k].enabled}}
    \cup
    {searchExclude.v[i].pattern : i \in {k \in 1..Len(searchExclude.v) : searchExclude.v[k].enabled}}

\* C8: a pattern string with a part that contains `..`, starts with `/` or
\* contains `~` is rejected: as the allow-pattern string, getFilePatterns returns
\* no Pattern Set; as the custom-exclude string, buildExcludePattern's merged list
\* holds the enabled host patterns only, each once, and none of the string's parts.
C8_UnsafeRejected ==
    /\ (gpc = "done" /\ SpecUnsafe(SourceString)) =>
          /\ ~patternSet.some
          /\ shown = <<"INVALID_PATTERNS">>
    /\ (xpc = "done" /\ SpecUnsafe(customExcludePatterns)) =>
          /\ \A i \in 1..Len(allPatterns) :
                respectVSCodeExcludes /\ allPatterns[i] \in SpecEnabledHost
          /\ \A i, j \in 1..Len(allPatterns) : allPatterns[i] = allPatterns[j] => i = j
          /\ (~respectVSCodeExcludes \/ SpecEnabledHost = {}) => ~excludePattern.some

\* buildExcludePattern has run on a custom-exclude string with one valid and one
\* unsafe part, with an enabled host exclude: only the host pattern is in the glob.
C8_Witness ==
    /\ xpc = "done"
    /\ customExcludePatterns = <<"a", ",", "~">>
    /\ respectVSCodeExcludes
    /\ filesExclude = Some(<<[pattern |-> Glob.hostStarA, enabled |-> TRUE],
                             [pattern |-> Glob.hostA, enabled |-> FALSE]>>)
    /\ searchExclude = None
    /\ allPatterns = <<Glob.hostStarA>>
    /\ excludePattern = Some(<<"*", "*", "/", "*", ".", "a">>)

\* The characters the Pattern Set invariant of the specification allows in a part.
SpecAllowedChars ==
    Chars(LowerSeq) \cup Chars(UpperSeq) \cup Digits \cup {".", "*", "?", "[", "]", "/", "-", "_"}

\* Every comma-separated part is non-empty, written with the allowed characters,
\* and has no `..`, no leading `/` and no `~`.
SpecWellFormed(str) ==
    \A i \in 1..Len(Split(str, ",")) :
        LET part == Split(str, ",")[i]
        IN  /\ Len(part) >= 1
            /\ Chars(part) \subseteq SpecAllowedChars
            /\ ~SpecUnsafePart(part)

\* C9 as claimed: every well-formed pattern string is accepted, so getFilePatterns
\* returns its parts as the Pattern Set; in particular `?` and bracket classes
\* such as `test[0-9].js` are accepted.
C9_AsClaimed ==
    (gpc = "done" /\ ~IsBlank(allowedFilePatterns) /\ SpecWellFormed(allowedFilePatterns.v)) =>
        /\ patternSet.some
        /\ patternSet.v = Split(allowedFilePatterns.v, ",")
        /\ shown = <<>>

\* The string holds a brace group: a `{`, later a `}`, and a comma between them.
SpecHasBraceGroup(str) ==
    \E i, j, k \in 1..Len(str) :
        i < j /\ j < k /\ str[i] = "{" /\ str[j] = "," /\ str[k] = "}"

\* C10 as claimed: an allow-pattern string with a brace group is accepted and the
\* Pattern Set returned holds the brace group as one intact pattern, so that the
\* directly selected a.js and a.ts pass filterFilesByPatterns.
C10_AsClaimed ==
    (gpc = "done" /\ SpecHasBraceGroup(SourceString)) =>
        /\ patternSet.some
        /\ \E i \in 1..Len(patternSet.v) : SpecHasBraceGroup(patternSet.v[i])
        /\ SourceString = Glob.braceJsTs =>
              /\ patternSet.v = <<Glob.braceJsTs>>
              /\ FilterFilesByPatterns(<<File.aJs, File.aTs>>,
                                       patternSet.v)
                    = <<File.aJs, File.aTs>>

----------------------------------------------------------------------------
(* Properties of findAllGitignoreFiles and filterFilesWithGitignore *)

\* The path is the directory or lies below it, compared component by component.
SpecWithin(path, dir) ==
    LET pc == Split(path, "/")
        dc == Split(dir, "/")
    IN  /\ Len(dc) <= Len(pc)
        /\ \A k \in 1..Len(dc) : pc[k] = dc[k]

\* The file's path taken relative to a directory above it.
SpecRelativeTo(dir, filePath) == SubSeq(filePath, Len(dir) + 2, Len(filePath))

\* The directories with a rule set on the chain from the workspace root down to
\* the file's containing directory.
SpecChain(filePath) ==
    {d \in DOMAIN gitignoreMap :
        SpecWithin(d, WS_ROOT) /\ SpecWithin(Dirname(filePath), d)}

\* No rule set on the file's chain matches the file's path relative to it.
SpecKept(filePath) ==
    \A d \in SpecChain(filePath) :
        ~Ignores(CompileIgnore(gitignoreMap[d]), SpecRelativeTo(d, filePath))

InList(list, x) == \E i \in 1..Len(list) : list[i] = x

\* C5: the filter keeps a file exactly when no directory on the chain from the
\* workspace root to the file's directory has a rule set matching the file's
\* path relative to that directory, so a rule set never excludes a file outside
\* its subtree; with root rule `*.log` and `sub` rule `*.tmp`, süb/x.tmp and
\* süb/y.log are excluded and other/z.tmp is kept.
C5_HierarchicalIgnore ==
    ipc = "done" =>
        /\ filtered = SelectSeq(candidates, SpecKept)
        /\ \A i \in 1..Len(candidates) :
              ~InList(filtered, candidates[i]) =>
                  \E d \in DOMAIN gitignoreMap : SpecWithin(candidates[i], d)
        /\ (/\ WS_ROOT \in DOMAIN gitignoreMap
            /\ gitignoreMap[WS_ROOT] = Rule.log
            /\ Dir.sub \in DOMAIN gitignoreMap
            /\ gitignoreMap[Dir.sub] = Rule.tmp)
            => /\ ~InList(filtered, File.subX)
               /\ ~InList(filtered, File.subY)
               /\ InList(filtered, File.otherZ)

C5_Witness ==
    /\ ipc = "done"
    /\ DOMAIN gitignoreMap = {WS_ROOT, Dir.sub}
    /\ gitignoreMap[WS_ROOT] = Rule.log
    /\ gitignoreMap[Dir.sub] = Rule.tmp
    /\ candidates = WorkspaceFiles
    /\ filtered = <<File.otherZ, File.buildO, File.anyBuildO, File.subBuildO, File.subAnyBuildO>>

\* The text is one anchored rule `/name`, name a plain file or directory name.
SpecAnchoredName(text) ==
    /\ Len(text) >= 2
    /\ text[1] = "/"
    /\ \A k \in 2..Len(text) : text[k] \notin {"/", "*", "?", "!", "[", "\n", " ", "#"}

\* The file is D/name or lies below D/name/, for the rule text `/name` of D.
SpecAtOrBelow(filePath, dir, text) ==
    \/ filePath = dir \o text
    \/ StartsWith(filePath, dir \o text \o <<"/">>)

\* C6: an anchored rule `/name` in the ignore-file of directory D excludes the
\* files at D/name and below D/name/, and only those: it is bound to D, also for
\* a nested ignore-file. `/build` at the root excludes <root>/build/... and not
\* <root>/any/build/...
C6_AnchoredRule ==
    ipc = "done" =>
        /\ \A d \in DOMAIN gitignoreMap : SpecAnchoredName(gitignoreMap[d]) =>
              \A i \in 1..Len(candidates) :
                  SpecAtOrBelow(candidates[i], d, gitignoreMap[d])
                      => ~InList(filtered, candidates[i])
        /\ \A i \in 1..Len(candidates) : ~InList(filtered, candidates[i]) =>
              \E d \in DOMAIN gitignoreMap :
                  /\ gitignoreMap[d] # <<>>
                  /\ SpecWithin(candidates[i], d)
                  /\ SpecAnchoredName(gitignoreMap[d])
                        => SpecAtOrBelow(candidates[i], d, gitignoreMap[d])
        /\ (/\ WS_ROOT \in DOMAIN gitignoreMap
            /\ gitignoreMap[WS_ROOT] = Rule.build
            /\ \A d \in DOMAIN gitignoreMap : d # WS_ROOT => gitignoreMap[d] = <<>>)
            => /\ ~InList(filtered, File.buildO)
               /\ InList(filtered, File.anyBuildO)
               /\ InList(filtered, File.subBuildO)
               /\ InList(filtered, File.subAnyBuildO)

\* `/build` at the root and in sub: each excludes its own build directory only.
C6_Witness ==
    /\ ipc = "done"
    /\ DOMAIN gitignoreMap = {WS_ROOT, Dir.sub}
    /\ gitignoreMap[WS_ROOT] = Rule.build
    /\ gitignoreMap[Dir.sub] = Rule.build
    /\ candidates = WorkspaceFiles
    /\ filtered = <<File.subX, File.subY, File.otherZ, File.y, File.anyBuildO, File.subAnyBuildO>>

\* C7 as claimed: an ignore-file is read, and becomes a key of the rule set, only
\* if its path is the workspace root or a descendant of it compared by path
\* components; every key of the rule set lies within the workspace root.
C7_AsClaimed ==
    /\ \A i \in giRead : SpecWithin(gitignoreFiles[i], WS_ROOT)
    /\ \A d \in DOMAIN gitignoreMap : SpecWithin(d, WS_ROOT)

----------------------------------------------------------------------------
(* Properties of the deduplication *)

SameFile(a, b) == ToLowerCase(a) = ToLowerCase(b)

\* Entry i of the list is the first one with its lower-cased path.
SpecFirstOccurrence(list, i) == \A j \in 1..(i - 1) : ~SameFile(list[j], list[i])

\* The output has no two entries with the same lower-cased path, and its
\* entries are the first occurrences of the input, each of them once.
SpecDeduplicated(input, output) ==
    /\ \A i, j \in 1..Len(output) : i # j => ~SameFile(output[i], output[j])
    /\ \A i \in 1..Len(input) : SpecFirstOccurrence(input, i) => InList(output, input[i])
    /\ \A k \in 1..Len(output) :
          \E i \in 1..Len(input) : SpecFirstOccurrence(input, i) /\ input[i] = output[k]

\* C4: the list a processGlobPatterns call returns (main path and fallback), the
\* list processFoldersContent returns and the final list of
\* copyContentToClipboard hold no two entries whose paths are equal after
\* lower-casing, and hold exactly the first occurrence of every lower-cased
\* path of their input.
C4_Deduplicated ==
    /\ \A i \in DOMAIN walks :
          walks[i].pc = "done" => SpecDeduplicated(walks[i].files, walks[i].result)
    /\ wpc \in {"merged", "final"} /\ Len(selectedFolders) > 0
          => SpecDeduplicated(FolderResults, folderFiles)
    /\ wpc = "final" => SpecDeduplicated(allFilesToProcess, finalFiles)

\* A file matched by two patterns in a fallback walk, found under two selected
\* folders, and selected directly in another letter case: once in each list.
C4_Witness ==
    /\ wpc = "final"
    /\ \E i \in DOMAIN walks :
          /\ walks[i].path = "fallback"
          /\ Len(walks[i].result) < Len(walks[i].files)
    /\ \E i \in DOMAIN walks :
          /\ walks[i].path = "main"
          /\ Len(walks[i].result) < Len(walks[i].files)
    /\ Len(folderFiles) < Len(FolderResults)
    /\ Len(finalFiles) < Len(allFilesToProcess)
    /\ InList(finalFiles, File.upperSubX)
    /\ ~InList(finalFiles, File.subX)

----------------------------------------------------------------------------
(* Properties of matchesPattern, matchesSinglePattern and filterFilesByPatterns *)

\* The pattern is prefix{options}suffix with a single, non-nested brace group:
\* one `{`, one `}` after it; prefix and suffix may be empty.
SpecSingleGroup(pattern) ==
    /\ Cardinality({i \in 1..Len(pattern) : pattern[i] = "{"}) = 1
    /\ Cardinality({i \in 1..Len(pattern) : pattern[i] = "}"}) = 1
    /\ IndexOfFrom(pattern, "{", 1) < IndexOfFrom(pattern, "}", 1)

\* The patterns prefix+option+suffix of a pattern with a single brace group, one
\* per comma-separated option, as they are written.
SpecAlternatives(pattern) ==
    LET open == IndexOfFrom(pattern, "{", 1)
        close == IndexOfFrom(pattern, "}", 1)
        options == Split(SubSeq(pattern, open + 1, close - 1), ",")
    IN  {SubSeq(pattern, 1, open - 1) \o options[k] \o SubSeq(pattern, close + 1, Len(pattern)) :
            k \in 1..Len(options)}

\* C11 as claimed: for a pattern with a single brace group, prefix and suffix
\* possibly empty (and no blank in it, so that the trimming of the options
\* changes nothing), matchesPattern accepts a file name exactly when it accepts
\* the name for one of the patterns prefix+option+suffix.
C11_AsClaimed ==
    (mpc # "init" /\ Len(mPatterns) = 1 /\ SpecSingleGroup(mPatterns[1])
        /\ ~Includes(mPatterns[1], <<" ">>)) =>
        (mResult = "true"
            <=> \E alt \in SpecAlternatives(mPatterns[1]) : MatchOutcome(mPath, <<alt>>) = "true")

\* toUpper: the upper-case form of the string, as toUpperCase gives it.
SpecToUpper(s) == Flatten([i \in 1..Len(s) |-> UpperOf[s[i]]])

\* Upper-casing and the case folding of a regular expression agree on every
\* character of the string: none is a letter whose upper-case form is two
\* letters (the sharp s) or an ASCII letter although the letter is not (the
\* dotless i, the long s).
SpecSimpleCase(s) == \A i \in 1..Len(s) : UpperOf[s[i]] = <<Canonicalize[s[i]]>>

\* The pattern is ASCII, and no `x-y` of it has a lower-case letter at exactly
\* one end.
SpecSameCaseRanges(pattern) ==
    /\ \A i \in 1..Len(pattern) : CharCode[pattern[i]] < 128
    /\ \A i \in 1..(Len(pattern) - 2) :
          pattern[i + 1] = "-" =>
              ((pattern[i] \in Chars(LowerSeq)) <=> (pattern[i + 2] \in Chars(LowerSeq)))

\* C12: matchesPattern ends the same way for the upper-cased file name, and for
\* the list with any one pattern upper-cased: matching never depends on letter
\* case.
C12_AsClaimed ==
    mpc # "init" =>
        /\ mResult = MatchOutcome(SpecToUpper(mPath), mPatterns)
        /\ \A k \in 1..Len(mPatterns) :
              mResult = MatchOutcome(mPath, [mPatterns EXCEPT ![k] = SpecToUpper(@)])

\* What holds of matchesPattern as built: it ends the same way for the
\* upper-cased file name when upper-casing and the case folding of the
\* expression agree on the characters of the name, and for the list with any
\* one pattern upper-cased when that pattern is ASCII and none of its ranges
\* has a lower-case letter at exactly one end.
C12_AsBuilt ==
    mpc # "init" =>
        /\ SpecSimpleCase(mPath) => mResult = MatchOutcome(SpecToUpper(mPath), mPatterns)
        /\ \A k \in 1..Len(mPatterns) :
              SpecSameCaseRanges(mPatterns[k]) =>
                  mResult = MatchOutcome(mPath, [mPatterns EXCEPT ![k] = SpecToUpper(@)])

\* The name `i.js` with a dotless i was rejected by the pattern `i.js`, which
\* accepts the upper-cased name `I.JS`.
C12_DotlessRejected ==
    /\ mpc = "matched"
    /\ mPath = <<"U+0131", ".", "j", "s">>
    /\ mPatterns = <<<<"i", ".", "j", "s">>>>
    /\ mResult = "false"
    /\ MatchOutcome(SpecToUpper(mPath), mPatterns) = "true"

\* A bracket expression read as a glob reads it: the characters between the
\* brackets stand for themselves, x-y is a range, a leading `^` negates.
SpecClassAccepts(raw, ch) ==
    LET negated == raw # <<>> /\ Head(raw) = "^"
        body == IF negated THEN Tail(raw) ELSE raw
        same(x, y) == LowerOf[x] = LowerOf[y] \/ UpperOf[x] = UpperOf[y]
        inRange(lo, hi, x) == CharCode[lo] <= CharCode[x] /\ CharCode[x] <= CharCode[hi]
        hit == \/ \E k \in 1..Len(body) : same(body[k], ch)
               \/ \E k \in 1..(Len(body) - 2) :
                     /\ body[k + 1] = "-"
                     /\ \E x \in {ch} \cup Chars(LowerOf[ch]) \cup Chars(UpperOf[ch]) :
                           inRange(body[k], body[k + 2], x)
    IN  IF negated THEN ~hit ELSE hit

\* The reference glob matcher over the whole name, letter case ignored: `*` is
\* any run of characters, `?` any one character, a bracket expression one
\* character of its class or range, every other character itself.
RECURSIVE SpecGlobTest(_, _, _, _)
SpecGlobTest(pattern, i, name, j) ==
    IF i > Len(pattern) THEN j > Len(name)
    ELSE IF pattern[i] = "*"
         THEN \/ SpecGlobTest(pattern, i + 1, name, j)
              \/ j <= Len(name) /\ SpecGlobTest(pattern, i, name, j + 1)
    ELSE IF j > Len(name) THEN FALSE
    ELSE IF pattern[i] = "?" THEN SpecGlobTest(pattern, i + 1, name, j + 1)
    ELSE IF pattern[i] = "[" /\ IndexOfFrom(pattern, "]", i + 1) # 0
         THEN LET close == IndexOfFrom(pattern, "]", i + 1)
              IN  /\ SpecClassAccepts(SubSeq(pattern, i + 1, close - 1), name[j])
                  /\ SpecGlobTest(pattern, close + 1, name, j + 1)
    ELSE /\ \/ LowerOf[pattern[i]] = LowerOf[name[j]]
            \/ UpperOf[pattern[i]] = UpperOf[name[j]]
         /\ SpecGlobTest(pattern, i + 1, name, j + 1)

\* C13 as claimed: for a bare file name and one pattern without a brace group
\* whose brackets are well formed, matchesSinglePattern accepts the name exactly
\* when the reference glob matcher does.
C13_AsClaimed ==
    (mpc # "init" /\ Len(mPatterns) = 1 /\ ~Includes(mPath, <<SEP>>)
        /\ ~Includes(mPatterns[1], <<"{">>) /\ RegexCompiles(mPatterns[1], 1)) =>
        /\ mResult = (IF MatchesSinglePattern(mPath, mPatterns[1]) THEN "true" ELSE "false")
        /\ MatchesSinglePattern(mPath, mPatterns[1]) <=> SpecGlobTest(mPatterns[1], 1, mPath, 1)

\* The file name of a path: what follows its last separator.
SpecFileName(path) == Split(path, SEP)[Len(Split(path, SEP))]

\* C14: matchesPattern ends for a path as it ends for the path's file name alone,
\* and with "false" for the empty pattern list; filterFilesByPatterns keeps a
\* directly selected file exactly when it keeps the file's name alone, which is
\* when matchesPattern accepts that name.
C14_BaseNameOnly ==
    /\ mpc # "init" =>
          /\ mResult = MatchOutcome(SpecFileName(mPath), mPatterns)
          /\ mPatterns = <<>> => mResult = "false"
    /\ mpc = "filtered" =>
          LET alone == FilterOutcome(<<SpecFileName(mPath)>>, mPatterns)
          IN  /\ mKept.some <=> alone.some
              /\ mKept.v = <<mPath>> <=> alone.v = <<SpecFileName(mPath)>>
              /\ mKept.v = <<mPath>> <=> mResult = "true"
              /\ mKept.v # <<mPath>> => mKept.v = <<>>

\* A file below a directory was kept for a pattern list without `*`, so that no
\* pattern of the list can span the directory part.
C14_Witness ==
    /\ mpc = "filtered"
    /\ Includes(mPath, <<SEP>>)
    /\ mKept = Some(<<mPath>>)
    /\ \A k \in 1..Len(mPatterns) : ~Includes(mPatterns[k], <<"*">>)

----------------------------------------------------------------------------
(* Properties of buildExcludePattern *)

\* The patterns of the entries of a host setting whose flag is true, in key order.
SpecEnabledOf(setting) ==
    LET on == SelectSeq(setting.v, LAMBDA entry : entry.enabled)
    IN  [i \in 1..Len(on) |-> on[i].pattern]

\* The host settings as the call got them: a setting whose lookup threw, or
\* that comes after the lookup that threw, was not read.
SpecFilesAnswer == IF hostThrown = "files" THEN None ELSE filesExclude
SpecSearchAnswer == IF hostThrown \in {"files", "search"} THEN None ELSE searchExclude

\* The merged list: the enabled patterns of the host settings the call got,
\* taken only when respectVSCodeExcludes is true, then the parts of a valid
\* custom-exclude string.
SpecMergedList ==
    (IF respectVSCodeExcludes
     THEN SpecEnabledOf(SpecFilesAnswer) \o SpecEnabledOf(SpecSearchAnswer)
     ELSE <<>>)
    \o (IF ValidateFilePatterns(customExcludePatterns)
        THEN SelectSeq(TrimAll(Split(customExcludePatterns, ",")), LAMBDA part : part # <<>>)
        ELSE <<>>)

\* A list without its repetitions: the first occurrences, in order.
SpecFirstOccurrences(list) ==
    LET firsts == {i \in 1..Len(list) : \A j \in 1..(i - 1) : list[j] # list[i]}
    IN  [k \in 1..Cardinality(firsts) |->
            list[CHOOSE i \in firsts : Cardinality({j \in firsts : j <= i}) = k]]

\* C15: buildExcludePattern returns undefined exactly when the merged list is
\* empty; otherwise **/p for the one unique pattern p, or **/{p1,...,pn} in
\* first-occurrence order for n > 1 unique patterns; and every pattern of the
\* result comes from an entry whose flag is true or from the custom-exclude
\* string, never from a host entry whose flag is false.
C15_ExcludePattern ==
    xpc = "done" =>
        LET u == SpecFirstOccurrences(SpecMergedList)
        IN  /\ ~excludePattern.some <=> SpecMergedList = <<>>
            /\ Len(u) = 1 => excludePattern = Some(<<"*", "*", "/">> \o u[1])
            /\ Len(u) > 1 =>
                  excludePattern = Some(<<"*", "*", "/", "{">> \o Join(u, ",") \o <<"}">>)
            /\ \A i \in 1..Len(allPatterns) : Contains(SpecMergedList, allPatterns[i])

\* buildExcludePattern has returned a brace group of two patterns or more from a
\* merged list with a repetition, the host settings holding an entry whose flag
\* is false and whose pattern is not in the result.
C15_Witness ==
    /\ xpc = "done"
    /\ excludePattern.some
    /\ Len(SpecFirstOccurrences(SpecMergedList)) > 1
    /\ Len(SpecMergedList) > Len(SpecFirstOccurrences(SpecMergedList))
    /\ \E i \in 1..Len(filesExclude.v) :
          /\ ~filesExclude.v[i].enabled
          /\ ~Contains(SpecMergedList, filesExclude.v[i].pattern)

----------------------------------------------------------------------------
(* Properties of separateFilesAndFolders *)

\* The elements of a list at the given positions, in the order of the list.
SpecSubsequence(list, positions) ==
    [k \in 1..Cardinality(positions) |->
        list[CHOOSE i \in positions : Cardinality({j \in positions : j <= i}) = k]]

\* The positions visited so far whose stat succeeded with a directory type (a
\* directory, or a link to one), and with any other type.
SpecFolderPositions ==
    {i \in 1..Len(stats) :
        /\ stats[i].ok
        /\ stats[i].type \in {FileType.Directory, FileType.SymbolicLink + FileType.Directory}}
SpecFilePositions ==
    {i \in 1..Len(stats) :
        /\ stats[i].ok
        /\ stats[i].type \notin {FileType.Directory, FileType.SymbolicLink + FileType.Directory}}

\* C16: separateFilesAndFolders does not throw; of the resources visited, `folders`
\* holds those whose stat succeeded with the directory flag and `files` those
\* whose stat succeeded without it, both in input order, and a resource whose
\* stat failed is in neither; when it returns, every resource has been visited.
C16_Separated ==
    /\ spc \in {"idle", "loop", "done"}
    /\ sepFolders = SpecSubsequence(uris, SpecFolderPositions)
    /\ sepFiles = SpecSubsequence(uris, SpecFilePositions)
    /\ Len(sepFiles) + Len(sepFolders) = Cardinality({i \in 1..Len(stats) : stats[i].ok})
    /\ spc = "done" => Len(stats) = Len(uris)

\* separateFilesAndFolders has returned for three distinct resources: the stat of one
\* failed, one is a link to a directory, one is a file.
C16_Witness ==
    /\ spc = "done"
    /\ Len(uris) = 3
    /\ Cardinality({uris[i] : i \in 1..3}) = 3
    /\ \E i \in 1..3 : ~stats[i].ok
    /\ \E i \in 1..3 : stats[i] = StatOk(FileType.SymbolicLink + FileType.Directory)
    /\ Len(sepFolders) = 1
    /\ Len(sepFiles) = 1

----------------------------------------------------------------------------
(* Properties of the commands *)

\* The error messages shown so far: those of getFilePatterns, and those of the
\* command itself.
SpecErrorsShown ==
    Len(shown) + Cardinality({i \in 1..Len(notices) : notices[i].kind = "error"})

\* A directory enumeration has been requested: a processGlobPatterns call has started.
SpecEnumerated == \E i \in 1..Len(walks) : walks[i].pc # "idle"

\* A file read has been requested.
SpecReadIssued == rpc \in {"reading", "done"}

\* The command has ended with the information message OPERATION_CANCELLED alone;
\* no error message was shown, no directory enumeration and no file read was
\* requested, and the clipboard was not written.
SpecCancelledQuietly ==
    /\ cpc = "ended"
    /\ notices = <<Notice("information", "OPERATION_CANCELLED")>>
    /\ SpecErrorsShown = 0
    /\ ~SpecEnumerated
    /\ ~SpecReadIssued
    /\ ~clipboard.some

\* C17: the step that dismisses the quick pick of copyFolderToClipboard or
\* copyContentToClipboard ends the command with the information message
\* OPERATION_CANCELLED and without an error message, no directory having been
\* enumerated, no file read and the clipboard not written; and no later step
\* shows a message, requests an enumeration or a read, or writes the clipboard.
C17_Cancelled ==
    [][wpc' = "cancelled" =>
          /\ SpecCancelledQuietly'
          /\ wpc = "cancelled" => UNCHANGED <<notices, shown, walks, rpc, pending, clipboard>>]_vars

\* copyContentToClipboard was cancelled at the quick pick after a directly
\* selected file had matched the patterns.
C17_Witness ==
    /\ command = "copyContent"
    /\ wpc = "cancelled"
    /\ cpc = "ended"
    /\ selectedFolders # <<>>
    /\ allFilesToProcess # <<>>

\* separateFilesAndFolders has asked for the type of a resource.
SpecStatIssued == stats # <<>>

\* C18 as claimed: a command that has ended on an allow-pattern string with a
\* part that contains `..`, starts with `/` or contains `~` has shown exactly one
\* error message, has issued no stat, no enumeration and no read, and has not
\* written the clipboard.
C18_AsClaimed ==
    (/\ cpc = "ended"
     /\ gpc = "done"
     /\ allowedFilePatterns.some
     /\ SpecUnsafe(allowedFilePatterns.v)) =>
        /\ SpecErrorsShown = 1
        /\ ~SpecStatIssued
        /\ ~SpecEnumerated
        /\ ~SpecReadIssued
        /\ ~clipboard.some

\* What holds of the same states: two error messages, INVALID_PATTERNS from
\* getFilePatterns and NO_PATTERNS_SPECIFIED from the command, after one stat
\* per selected resource; no enumeration, no read, no clipboard write.
C18_AsBuilt ==
    (/\ cpc = "ended"
     /\ gpc = "done"
     /\ allowedFilePatterns.some
     /\ SpecUnsafe(allowedFilePatterns.v)) =>
        /\ shown = <<"INVALID_PATTERNS">>
        /\ notices = <<Notice("error", "NO_PATTERNS_SPECIFIED")>>
        /\ Len(stats) = Len(uris)
        /\ SpecStatIssued
        /\ ~SpecEnumerated
        /\ ~SpecReadIssued
        /\ ~clipboard.some

\* The files of the list handed to readFilesContent whose read has succeeded.
SpecReadSuccessfully ==
    {i \in 1..Len(files) : delivered[i].state \notin {"pending", "error"}}

\* The command has shown the message `text` with showErrorMessage.
SpecErrorShown(text) ==
    \E i \in 1..Len(notices) : notices[i] = Notice("error", text)

\* The command has ended after readFilesContent returned, and not in its catch.
SpecEndedAfterReads ==
    /\ cpc = "ended"
    /\ rpc = "done"
    /\ ~SpecErrorShown("COPY_FAILED")

\* C19 as claimed: a command that ended after its reads shows READ_FAILED exactly
\* if no file of its non-empty final list was read successfully, and with at
\* least one file read successfully it has written the aggregated content to the
\* clipboard and shows no READ_FAILED.
C19_AsClaimed ==
    SpecEndedAfterReads =>
        /\ SpecErrorShown("READ_FAILED") <=> (files # <<>> /\ SpecReadSuccessfully = {})
        /\ SpecReadSuccessfully # {} =>
              (clipboard = Some(outcome.content) /\ ~SpecErrorShown("READ_FAILED"))

\* What holds of the same states: the test is on the aggregated content, so
\* READ_FAILED is shown exactly if the content is the empty string, and the
\* clipboard is written exactly if it is not; an empty final list never reaches
\* the reads and ends with the no-match message of the command.
C19_AsBuilt ==
    /\ SpecEndedAfterReads =>
          /\ files # <<>>
          /\ SpecErrorShown("READ_FAILED") <=> outcome.content = <<>>
          /\ clipboard.some <=> outcome.content # <<>>
          /\ clipboard.some => clipboard = Some(outcome.content)
          /\ SpecReadSuccessfully = {} => outcome.content = <<>>
    /\ (SpecErrorShown("NO_MATCHING_FILES") \/ SpecErrorShown("NO_MATCHING_FOLDER_FILES")) =>
          (rpc = "idle" /\ ~SpecErrorShown("READ_FAILED") /\ ~clipboard.some)

\* The texts the commands pass to showErrorMessage: members of CONSTANTS.MESSAGES.
SpecErrorTexts ==
    {"NO_FILES_SELECTED", "NO_FOLDER_SELECTED", "NO_ITEMS_SELECTED", "ONLY_FOLDERS_SELECTED",
     "ONLY_FILES_SELECTED", "NO_VALID_ITEMS_SELECTED", "NO_PATTERNS_SPECIFIED",
     "NO_MATCHING_FILES", "NO_MATCHING_FOLDER_FILES", "READ_FAILED", "COPY_FAILED"}

\* The step is a collaborator call that throws under a handler of its own: stat
\* in separateFilesAndFolders, the findFiles request of processGlobPatterns or
\* the settings lookup after it, or readFile in readFilesContent.
SpecGuardedCallThrows ==
    \/ /\ Len(stats') = Len(stats) + 1
       /\ stats'[Len(stats')] = StatFailed
    \/ \E i \in DOMAIN walks \cap DOMAIN walks' :
          walks[i].pc = "find" /\ walks'[i].pc = "fallback"
    \/ \E i \in DOMAIN delivered \cap DOMAIN delivered' :
          delivered[i].state = "pending" /\ delivered'[i].state = "error"

\* The command awaits a call that no handler but its own catch guards: the
\* configuration lookup or the input box of getFilePatterns, the quick pick,
\* clipboard.writeText.
SpecAwaitsUnguardedCall ==
    \/ cpc = "patterns" /\ gpc \in {"init", "prompt"}
    \/ QuickPickOpen
    \/ cpc = "write"

\* The step is one in which a processGlobPatterns call rejects: a lookup of its
\* catch block threw, which stands outside the per-pattern try. The call had
\* not started or awaited its combined request (the catch block was entered in
\* the step), or it awaited the last request of its fallback.
SpecCallRejects ==
    \E i \in DOMAIN walks' :
        /\ walks'[i].pc = "thrown"
        /\ i \in DOMAIN walks =>
              \/ walks[i].pc \in {"idle", "find"}
              \/ walks[i].pc = "fallback" /\ walks[i].next = Len(filePatterns)

\* The last message of the command is the error COPY_FAILED.
SpecEndedCopyFailed ==
    /\ cpc = "ended"
    /\ notices # <<>>
    /\ notices[Len(notices)] = Notice("error", "COPY_FAILED")

\* C20 as claimed: a step in which stat, findFiles or readFile throws ends the
\* command with the message COPY_FAILED.
C20_AsClaimed ==
    [][SpecGuardedCallThrows => SpecEndedCopyFailed']_vars

\* C20: no exception leaves a command and none ends it silently. A command that
\* has ended has shown a message. An exception of the configuration lookup or the
\* input box of getFilePatterns ends the command with COPY_FAILED, and so does
\* the first processGlobPatterns call that rejects; COPY_FAILED is shown only by
\* a step from a state that awaits a call guarded by the catch of the command
\* alone, or by a step in which a processGlobPatterns call rejects, and the
\* step ends the command and leaves the clipboard as it was; a call never
\* rejects while a request of its fallback other than the last is outstanding.
\* A step in which stat, findFiles or readFile throws shows
\* no message and does not end the command. Every error message is one of the
\* constant texts, with no path or count filled in, and getFilePatterns shows
\* INVALID_PATTERNS only.
C20_Contained ==
    [][/\ cpc' = "ended" => notices' # <<>>
       /\ gpc' = "thrown" => SpecEndedCopyFailed'
       /\ (cpc # "ended" /\ SpecCallRejects) => SpecEndedCopyFailed'
       /\ (\E i \in DOMAIN walks \cap DOMAIN walks' :
              walks[i].pc # "thrown" /\ walks'[i].pc = "thrown") => SpecCallRejects
       /\ (notices' # notices /\ SpecEndedCopyFailed') =>
             ((SpecAwaitsUnguardedCall \/ SpecCallRejects) /\ clipboard' = clipboard)
       /\ SpecGuardedCallThrows =>
             (cpc' = cpc /\ notices' = notices /\ shown' = shown)
       /\ \A k \in 1..Len(notices') :
             notices'[k].kind = "error" =>
                (/\ notices'[k].text \in SpecErrorTexts
                 /\ notices'[k] = Notice("error", notices'[k].text))
       /\ \A k \in 1..Len(shown') : shown'[k] = "INVALID_PATTERNS"]_vars

\* A command has ended with COPY_FAILED when clipboard.writeText threw, after the
\* stat of one selected resource and the read of one file had thrown without
\* ending it.
C20_Witness ==
    /\ SpecEndedCopyFailed
    /\ \E i \in 1..Len(stats) : stats[i] = StatFailed
    /\ rpc = "done"
    /\ FailedIndices # {}
    /\ outcome.content # <<>>
    /\ ~clipboard.some

----------------------------------------------------------------------------
(* Properties of the joins: readFilesContent, processFoldersContent *)

\* The outcome the settled reads prescribe, taken in the order of the input
\* list: the blocks (the raw text for a list of one file) of the reads that
\* succeeded, the number and the paths of those that failed.
SpecOutcomeInInputOrder ==
    [content |-> IF Len(files) > 1 THEN SpecBlocksFrom(1)
                 ELSE IF Len(files) = 1 /\ delivered[1].state = "ok" THEN delivered[1].text
                 ELSE <<>>,
     errors |-> Cardinality(FailedIndices),
     failedFiles |-> SpecFailedFrom(1)]

\* The reads that have not settled.
SpecUnsettled == {i \in 1..Len(files) : delivered[i].state = "pending"}

\* C21: a read settles only when every read of the list has been issued (every
\* unsettled read is in flight); the step in which one read settles, with success
\* or with failure, changes that read alone and leaves every other read in
\* flight or settled as it was; the outcome is produced only when every read has
\* settled, it is the outcome the settled reads prescribe in the order of the
\* input list, whichever order they settled in, and it does not change
\* afterwards.
C21_JoinedInInputOrder ==
    [][/\ delivered' # delivered =>
             /\ files' = files
             /\ rpc = "reading"
             /\ pending = SpecUnsettled
             /\ \E i \in pending :
                   /\ pending' = pending \ {i}
                   /\ delivered'[i].state \in {"ok", "error"}
                   /\ \A j \in (1..Len(files)) \ {i} : delivered'[j] = delivered[j]
       /\ (rpc # "done" /\ rpc' = "done") => (pending = {} /\ SpecUnsettled = {})
       /\ (rpc = "done" => outcome = SpecOutcomeInInputOrder)'
       /\ (rpc = "done" /\ rpc' = "done") => outcome' = outcome]_vars

\* Three reads in flight: the third has succeeded and the second has failed
\* while the first is still in flight.
C21_Witness ==
    /\ rpc = "reading"
    /\ files = <<Name.aJs, Name.bPy, Name.cTs>>
    /\ pending = {1}
    /\ delivered[1].state = "pending"
    /\ delivered[2].state = "error"
    /\ delivered[3] = [state |-> "ok", text |-> <<"1">>]

\* The entries of the results of the walks from walk i on, walk by walk in
\* folder order and each walk's entries in the walk's order, without the
\* entries whose lower-cased path is that of an entry of `seen`.
RECURSIVE SpecMergeFrom(_, _, _)
SpecMergeFrom(i, k, seen) ==
    IF i > Len(walks) THEN <<>>
    ELSE IF k > Len(walks[i].result) THEN SpecMergeFrom(i + 1, 1, seen)
    ELSE LET file == walks[i].result[k]
         IN  IF \E j \in 1..Len(seen) : SameFile(seen[j], file)
             THEN SpecMergeFrom(i, k + 1, seen)
             ELSE <<file>> \o SpecMergeFrom(i, k + 1, Append(seen, file))

\* The walks whose state differs between the two states of a step.
SpecWalksChanged ==
    {i \in DOMAIN walks \cap DOMAIN walks' : walks'[i] # walks[i]}

\* C22: processFoldersContent starts one walk per selected folder, all of them
\* before any has returned; a step of a walk changes that walk alone and leaves
\* the merged list untouched; the merged list is written only by the step after
\* every walk has returned, it is the results of the walks in folder order, each
\* in the walk's order, less the entries whose lower-cased path came earlier,
\* whichever order the walks returned in, and it does not change afterwards.
C22_MergedAfterJoin ==
    [][/\ (wpc # "walking" /\ wpc' = "walking") =>
             /\ Len(walks') = Len(selectedFolders)
             /\ \A i \in DOMAIN walks' : walks'[i] \in WalkStarts
       /\ (wpc = "walking" /\ walks' # walks) =>
             /\ Cardinality(SpecWalksChanged) = 1
             /\ DOMAIN walks' = DOMAIN walks
             /\ folderFiles' = folderFiles
             /\ wpc' = "walking"
       /\ folderFiles' # folderFiles =>
             /\ wpc = "walking"
             /\ \A i \in DOMAIN walks : walks[i].pc = "done"
             /\ walks' = walks
             /\ wpc' = "merged"
       /\ (wpc \in {"merged", "final"} => folderFiles = SpecMergeFrom(1, 1, <<>>))'
       /\ wpc \notin {"walking", "merged", "final"} => folderFiles = <<>>]_vars

\* Two folders are walked: the walk of the second folder has returned files
\* while the walk of the first still awaits its enumeration, and the merged list
\* is untouched.
C22_Witness ==
    /\ wpc = "walking"
    /\ Len(selectedFolders) = 2
    /\ walks[1].pc = "find"
    /\ walks[2].pc = "done"
    /\ walks[2].result # <<>>
    /\ folderFiles = <<>>

----------------------------------------------------------------------------
(* Properties of the fallback of processGlobPatterns *)

\* The files the separate enumerations of walk i deliver from pattern k on: for
\* every pattern whose request did not reject, in pattern order, the files
\* findFiles returns for that pattern alone under the exclusion glob the catch
\* block built.
RECURSIVE SpecFallbackFound(_, _)
SpecFallbackFound(i, k) ==
    IF k > Len(filePatterns) THEN <<>>
    ELSE (IF k \in walks[i].skipped THEN <<>>
          ELSE FindFiles(selectedFolders[i],
                         IF isRecursive THEN <<"*", "*", "/">> \o filePatterns[k]
                         ELSE filePatterns[k],
                         walks[i].exclude))
         \o SpecFallbackFound(i, k + 1)

\* C23: a walk whose combined query failed enumerates every pattern by itself,
\* all under the same exclusion glob, one that buildExcludePattern returns
\* under the settings (the walk rejects only where a settings lookup of the
\* catch block throws: before its first request or after its last, never while
\* a pattern is skipped); a pattern whose request rejects is skipped and the files
\* of the other patterns are kept; the walk returns a list: the files of the
\* patterns that were not skipped, filtered with the ignore map when
\* respectGitignore is set (and the folder lies in a workspace folder, whose
\* ignore-files are the ones in scope): with the very map findAllGitignoreFiles
\* returned to the walk, and unfiltered when none was asked for; without
\* entries whose lower-cased path came earlier.
C23_FallbackSkipsBadPattern ==
    \A i \in DOMAIN walks :
        walks[i].path = "fallback" =>
            /\ walks[i].pc \in {"fallback", "ignore", "done", "thrown"}
            /\ walks[i].pc = "thrown" =>
                  \/ walks[i] = [IdleWalk EXCEPT !.pc = "thrown", !.path = "fallback"]
                  \/ walks[i].next = Len(filePatterns)
            /\ walks[i].pc # "thrown" => walks[i].exclude \in ExcludeOutcomes
            /\ walks[i].skipped \subseteq 1..Len(filePatterns)
            /\ walks[i].pc = "fallback" =>
                  /\ walks[i].next \in 1..Len(filePatterns)
                  /\ walks[i].skipped \subseteq 1..(walks[i].next - 1)
            /\ walks[i].pc = "ignore" =>
                  /\ respectGitignore
                  /\ GetWorkspaceFolder(selectedFolders[i]).some
                  /\ walks[i].files = SpecFallbackFound(i, 1)
            /\ walks[i].pc = "done" =>
                  /\ SpecDeduplicated(walks[i].files, walks[i].result)
                  /\ IF respectGitignore /\ GetWorkspaceFolder(selectedFolders[i]).some
                     THEN /\ walks[i].gitignoreMap.some
                          /\ walks[i].files =
                                FilterFilesWithGitignore(SpecFallbackFound(i, 1), WS_ROOT,
                                                         walks[i].gitignoreMap.v).kept
                     ELSE /\ ~walks[i].gitignoreMap.some
                          /\ walks[i].files = SpecFallbackFound(i, 1)

\* A fallback walk of two patterns has returned files of the first pattern
\* although the request of the second rejected; the ignore map returned to it
\* took some of the files of the first pattern away and left others.
C23_Witness ==
    \E i \in DOMAIN walks :
        /\ walks[i].path = "fallback"
        /\ walks[i].pc = "done"
        /\ Len(filePatterns) = 2
        /\ walks[i].skipped = {2}
        /\ walks[i].result # <<>>
        /\ walks[i].gitignoreMap.some
        /\ Len(walks[i].files) < Len(SpecFallbackFound(i, 1))

----------------------------------------------------------------------------
(* Properties of findAllGitignoreFiles and of the matcher cache *)

\* The directory an ignore-file lies in: its path without `/.gitignore`.
SpecIgnoreDir(p) == SubSeq(p, 1, Len(p) - Len(Name.gitignore) - 1)

\* The map m with the text set for directory d.
SpecWithEntry(m, d, text) ==
    [k \in DOMAIN m \cup {d} |-> IF k = d THEN text ELSE m[k]]

\* The ignore-files whose read the file system failed: the unreadable ones.
SpecUnreadable == {i \in DOMAIN giDelivered : giDelivered[i].state = "error"}

\* The ignore-files whose read the file system answered with a text.
SpecReadable == {i \in DOMAIN giDelivered : giDelivered[i].state = "ok"}

\* The map the answers of the file system determine, whatever order they came
\* in: for every readable ignore-file, the text that was read under the file's
\* directory, and no other entry.
SpecMapOfAnswers ==
    [d \in {SpecIgnoreDir(gitignoreFiles[i]) : i \in SpecReadable} |->
        giDelivered[CHOOSE i \in SpecReadable : SpecIgnoreDir(gitignoreFiles[i]) = d].text]

\* C24: one read settles per step and the enumeration goes on: the step in
\* which the file system fails the read of an ignore-file leaves the map as it
\* is, and the step in which it answers with a text sets the entry of that
\* file's directory and leaves every other entry; the map is at every moment the
\* one the answers given so far determine, so that every readable ignore-file
\* has its entry whichever reads failed and whichever order the reads settled
\* in; a failed enumeration leaves the map empty; in both cases the call
\* returns, after every read has settled, and the files are filtered with the
\* map, which does not change afterwards.
C24_UnreadableSkipped ==
    [][/\ (ipc = "reading" /\ giPending' # giPending) =>
             \E i \in giPending :
                /\ giPending' = giPending \ {i}
                /\ ipc' = "reading"
                /\ giDelivered[i].state = "pending"
                /\ giDelivered'[i].state \in {"ok", "error"}
                /\ \A j \in DOMAIN giDelivered \ {i} : giDelivered'[j] = giDelivered[j]
                /\ giDelivered'[i].state = "error" => gitignoreMap' = gitignoreMap
                /\ giDelivered'[i].state = "ok" =>
                      gitignoreMap' = SpecWithEntry(gitignoreMap,
                                                    SpecIgnoreDir(gitignoreFiles[i]),
                                                    giDelivered'[i].text)
       /\ (ipc \in {"reading", "done"} => gitignoreMap = SpecMapOfAnswers)'
       /\ (ipc = "init" /\ ipc' = "reading") =>
             /\ giPending' = giRead'
             /\ DOMAIN giDelivered' = giRead'
             /\ \A i \in giPending' : giDelivered'[i].state = "pending"
       /\ (ipc = "init" /\ ipc' = "done") => (gitignoreMap' = EmptyMap /\ filtered' = candidates)
       /\ (ipc = "reading" /\ ipc' # ipc) =>
             /\ ipc' = "done"
             /\ giPending = {}
             /\ \A i \in DOMAIN giDelivered : giDelivered[i].state # "pending"
             /\ giDelivered' = giDelivered
             /\ filtered' = FilterFilesWithGitignore(candidates, WS_ROOT, SpecMapOfAnswers).kept
       /\ ipc = "done" => (gitignoreMap' = gitignoreMap /\ giDelivered' = giDelivered)]_vars

\* findAllGitignoreFiles has returned: the read of the ignore-file of the
\* workspace root failed and the file has no entry, the read of that of the
\* subdirectory, which settled first or second, was answered and the file has
\* its own, and the files were filtered with it.
C24_Witness ==
    /\ ipc = "done"
    /\ gitignoreFiles = <<IgnoreFile.root, IgnoreFile.sub>>
    /\ giDelivered[1].state = "error"
    /\ giDelivered[2] = [state |-> "ok", text |-> Rule.tmp]
    /\ DOMAIN gitignoreMap = {Dir.sub}
    /\ gitignoreMap[Dir.sub] = Rule.tmp
    /\ Len(filtered) < Len(candidates)

\* The directories with a non-empty rule text that lie on the chain of a candidate.
SpecDirsInUse ==
    {d \in DOMAIN gitignoreMap :
        /\ gitignoreMap[d] # <<>>
        /\ \E i \in 1..Len(candidates) : d \in SpecChain(candidates[i])}

\* C25: in one filterFilesWithGitignore call no directory has a matcher compiled
\* twice; the cache the call leaves holds one matcher for every directory with a
\* non-empty rule text on the chain of a file and for no other directory, each
\* compiled from that directory's text; the cache is empty until the call builds
\* it; and the files kept are those kept when every test uses a matcher freshly
\* compiled from the text of its directory.
C25_MatcherCache ==
    /\ ipc # "done" => ignoreCache = EmptyMap
    /\ ipc = "done" =>
          LET compiled == FilterFilesWithGitignore(candidates, WS_ROOT, gitignoreMap).compiled
          IN  /\ \A i, j \in 1..Len(compiled) : i # j => compiled[i] # compiled[j]
              /\ DOMAIN ignoreCache = {compiled[i] : i \in 1..Len(compiled)}
              /\ DOMAIN ignoreCache = SpecDirsInUse
              /\ \A d \in DOMAIN ignoreCache : ignoreCache[d] = CompileIgnore(gitignoreMap[d])
              /\ filtered = SelectSeq(candidates, SpecKept)

\* The filter has returned with the matchers of the workspace root and of `sub`
\* in the cache: the matcher of the root served all eight files, that of `sub`
\* the four files below it, and files were filtered out.
C25_Witness ==
    /\ ipc = "done"
    /\ candidates = WorkspaceFiles
    /\ DOMAIN ignoreCache = {WS_ROOT, Dir.sub}
    /\ gitignoreMap[WS_ROOT] = Rule.yLog
    /\ gitignoreMap[Dir.sub] = Rule.tmp
    /\ Len(filtered) < Len(candidates)

----------------------------------------------------------------------------
(* Properties of the final list of copyContentToClipboard *)

\* The directly selected files whose base name a pattern accepts, in selection order.
SpecDirectMatches ==
    SelectSeq(selectedFiles, LAMBDA f : MatchesPattern(f, filePatterns))

\* The positions of the matching direct selections that are the first with
\* their lower-cased path.
SpecDirectKept ==
    {i \in 1..Len(SpecDirectMatches) : SpecFirstOccurrence(SpecDirectMatches, i)}

\* C26 as claimed: every directly selected file that matches the patterns is in
\* the final list, and before every file of the final list that was not
\* selected directly.
C26_AsClaimed ==
    wpc = "final" =>
        \A i \in 1..Len(SpecDirectMatches) :
            \E k \in 1..Len(finalFiles) :
                /\ finalFiles[k] = SpecDirectMatches[i]
                /\ \A j \in 1..Len(finalFiles) :
                      ~InList(selectedFiles, finalFiles[j]) => k < j

\* C26: whatever the ignore rules and the exclude settings are, the final list
\* begins with the directly selected files that match the patterns, in
\* selection order, each lower-cased path once (the first selected file that
\* has it); every later entry comes from a folder walk and has the path of no
\* direct selection.
C26_DirectSelectionsFirst ==
    wpc = "final" =>
        /\ Len(finalFiles) >= Cardinality(SpecDirectKept)
        /\ SubSeq(finalFiles, 1, Cardinality(SpecDirectKept))
              = SpecSubsequence(SpecDirectMatches, SpecDirectKept)
        /\ \A j \in (Cardinality(SpecDirectKept) + 1)..Len(finalFiles) :
              /\ InList(folderFiles, finalFiles[j])
              /\ \A i \in 1..Len(SpecDirectMatches) :
                    ~SameFile(SpecDirectMatches[i], finalFiles[j])

\* The exclusion glob of walk i drops the file from the walk.
SpecGlobDrops(i, file) ==
    GlobExcludes(walks[i].exclude, Split(AsRelativePath(file), SEP))

\* The ignore map returned to walk i takes the file out of the walk's files.
SpecMapIgnores(i, file) ==
    /\ walks[i].gitignoreMap.some
    /\ FilterFilesWithGitignore(<<file>>, WS_ROOT, walks[i].gitignoreMap.v).kept = <<>>

\* Three files were selected directly together with the workspace root, and
\* each matches the patterns: build/o.js, which the host setting `build` keeps
\* out of the recursive walk of the root and the ignore rule `/build` would take
\* out of its files; any/build/o.js, which the custom setting `any` keeps out of
\* it; and x.tmp below `sub`, which the walk found and the ignore rule `*.tmp`
\* of `sub` took out. The walk returned other files. The three files are the
\* first of the final list, in selection order, and the files of the walk
\* follow them.
C26_Witness ==
    /\ wpc = "final"
    /\ selectedFolders = <<WS_ROOT>>
    /\ selectedFiles = <<File.anyBuildO, File.buildO, File.subX, File.upperSubX, File.y>>
    /\ isRecursive
    /\ respectGitignore
    /\ customExcludePatterns = Name.any
    /\ filesExclude = Some(<<[pattern |-> Name.build, enabled |-> TRUE]>>)
    /\ walks[1].exclude = CurrentExclude
    /\ SpecGlobDrops(1, File.buildO)
    /\ SpecGlobDrops(1, File.anyBuildO)
    /\ GlobExcludes(CombineExcludes(<<Name.any>>), Split(AsRelativePath(File.anyBuildO), SEP))
    /\ SpecMapIgnores(1, File.buildO)
    /\ SpecMapIgnores(1, File.subX)
    /\ ~SpecGlobDrops(1, File.subX)
    /\ folderFiles # <<>>
    /\ \A f \in {File.anyBuildO, File.buildO, File.subX} : ~InList(folderFiles, f)
    /\ Len(finalFiles) > 3
    /\ SubSeq(finalFiles, 1, 3) = <<File.anyBuildO, File.buildO, File.subX>>
    /\ \A k \in 4..Len(finalFiles) : InList(folderFiles, finalFiles[k])

\* The rule text without its negation lines.
SpecWithoutNegations(text) ==
    Join(SelectSeq(Split(text, "\n"), LAMBDA line : line = <<>> \/ Head(line) # "!"), "\n")

\* The rule text of directory d ignores the file.
SpecIgnoredBy(d, filePath) ==
    Ignores(CompileIgnore(gitignoreMap[d]), SpecRelativeTo(d, filePath))

\* A negation rule of directory d re-includes the file: the text of d without
\* its negation lines ignores the file, the whole text does not.
SpecReincludedBy(d, filePath) ==
    /\ Ignores(CompileIgnore(SpecWithoutNegations(gitignoreMap[d])),
               SpecRelativeTo(d, filePath))
    /\ ~SpecIgnoredBy(d, filePath)

\* C27: a file that a negation rule of directory D re-includes is kept exactly
\* when no other ignore-file on its chain ignores it: the negation undoes a match
\* of D's own ignore-file and never a match of the ignore-file of an ancestor or
\* of any other directory on the chain.
C27_NegationStaysLocal ==
    ipc = "done" =>
        \A i \in 1..Len(candidates) :
            \A d \in SpecChain(candidates[i]) :
                SpecReincludedBy(d, candidates[i]) =>
                    (InList(filtered, candidates[i])
                        <=> \A a \in SpecChain(candidates[i]) \ {d} :
                               ~SpecIgnoredBy(a, candidates[i]))

\* The ignore-file of `sub` holds `*.tmp` and `!x.tmp`, that of the workspace
\* root `*.tmp`: süb/x.tmp is filtered out.
C27_Witness ==
    /\ ipc = "done"
    /\ DOMAIN gitignoreMap = {WS_ROOT, Dir.sub}
    /\ gitignoreMap[WS_ROOT] = Rule.tmp
    /\ gitignoreMap[Dir.sub] = Rule.tmpNotX
    /\ SpecReincludedBy(Dir.sub, File.subX)
    /\ InList(candidates, File.subX)
    /\ ~InList(filtered, File.subX)

----------------------------------------------------------------------------
(* Properties of the clipboard and of the success message *)

\* The command has ended on one of its abort paths: its last message is an
\* error message or the cancellation.
SpecAborted ==
    /\ cpc = "ended"
    /\ notices # <<>>
    /\ \/ notices[Len(notices)].kind = "error"
       \/ notices[Len(notices)] = Notice("information", "OPERATION_CANCELLED")

\* C28: the clipboard changes only in the step in which the command, every read
\* of its list having settled, writes the non-empty aggregated content; it was
\* not written before in the invocation and the command ends with that step, so
\* it is written at most once; a command that ended on an abort path has left
\* the clipboard as it was.
C28_ClipboardWrittenOnce ==
    [][/\ clipboard' # clipboard =>
             /\ cpc = "write"
             /\ rpc = "done"
             /\ files # <<>>
             /\ SpecUnsettled = {}
             /\ outcome.content # <<>>
             /\ ~clipboard.some
             /\ clipboard' = Some(outcome.content)
             /\ cpc' = "ended"
       /\ cpc = "ended" => clipboard' = clipboard
       /\ SpecAborted' => ~clipboard'.some]_vars

\* A command has written the content of a list of two or more files, one of
\* which could not be read, and has ended.
C28_Witness ==
    /\ cpc = "ended"
    /\ Len(files) >= 2
    /\ FailedIndices # {}
    /\ clipboard = Some(outcome.content)
    /\ outcome.content # <<>>
    /\ notices[Len(notices)].kind = "warning"

\* The command has written the clipboard and shown its success message.
SpecSucceeded ==
    /\ cpc = "ended"
    /\ clipboard.some
    /\ notices # <<>>
    /\ notices[Len(notices)].text = "COPIED"

\* The number of selected files the patterns do not accept.
SpecFilteredOut ==
    Cardinality({i \in 1..Len(sepFiles) : ~MatchesPattern(sepFiles[i], patternSet.v)})

\* C29 as claimed: the success message reports as copied the number of files
\* whose read succeeded, and copyFileToClipboard reports as filtered out the
\* number of selected files the patterns did not accept.
C29_AsClaimed ==
    SpecSucceeded =>
        /\ notices[Len(notices)].copied = Cardinality(SpecReadSuccessfully)
        /\ command = "copyFile" => notices[Len(notices)].filteredOut = SpecFilteredOut

\* What holds of the same states: the message reports the length of the list
\* handed to readFilesContent, the files whose read failed included; the
\* filtered-out count of copyFileToClipboard is as claimed.
C29_AsBuilt ==
    SpecSucceeded =>
        /\ notices[Len(notices)].copied = Len(files)
        /\ notices[Len(notices)].copied
              = Cardinality(SpecReadSuccessfully) + Len(outcome.failedFiles)
        /\ command = "copyFile" => notices[Len(notices)].filteredOut = SpecFilteredOut

----------------------------------------------------------------------------
(* Properties of a rejected custom-exclude string *)

\* The characters a part may be written with.
SpecSafeChars ==
    Chars(LowerSeq) \cup Chars(UpperSeq) \cup Digits \cup {"*", ".", ",", "_", "/", "-"}

\* The string fails validation: one of its comma-separated parts, trimmed, is
\* empty, has a character outside the safe ones, contains `..`, or starts with
\* `/` or contains `~`.
SpecFailsValidation(str) ==
    \E i \in 1..Len(Split(str, ",")) :
        LET part == Trim(Split(str, ",")[i])
        IN  \/ part = <<>>
            \/ \E k \in 1..Len(part) : part[k] \notin SpecSafeChars
            \/ SpecUnsafePart(part)

\* The enabled patterns of the host settings the call got, in the order
\* buildExcludePattern meets them, when respectVSCodeExcludes is set.
SpecHostList ==
    IF respectVSCodeExcludes
    THEN SpecFirstOccurrences(SpecEnabledOf(SpecFilesAnswer)
                                  \o SpecEnabledOf(SpecSearchAnswer))
    ELSE <<>>

\* The parts of the string that would pass the validator on their own.
SpecValidParts(str) ==
    {Trim(Split(str, ",")[i]) : i \in 1..Len(Split(str, ","))}
        \ {part \in {Trim(Split(str, ",")[i]) : i \in 1..Len(Split(str, ","))} :
              \/ part = <<>>
              \/ \E k \in 1..Len(part) : part[k] \notin SpecSafeChars
              \/ SpecUnsafePart(part)}

\* C30: when the non-blank custom-exclude string fails validation,
\* buildExcludePattern drops the whole string: its merged list is the list of
\* the enabled host patterns, so a valid part of the string is in it only if
\* an enabled host entry has the same pattern; the glob is the one of the
\* host patterns alone (undefined when there is none); and nothing is shown
\* to the user.
C30_InvalidCustomDropped ==
    (xpc = "done" /\ Trim(customExcludePatterns) # <<>>
                  /\ SpecFailsValidation(customExcludePatterns)) =>
        /\ allPatterns = SpecHostList
        /\ \A part \in SpecValidParts(customExcludePatterns) :
              Contains(allPatterns, part) =>
                  respectVSCodeExcludes /\ part \in SpecEnabledHost
        /\ Len(SpecHostList) = 0 => excludePattern = None
        /\ Len(SpecHostList) = 1 =>
              excludePattern = Some(<<"*", "*", "/">> \o SpecHostList[1])
        /\ Len(SpecHostList) > 1 =>
              excludePattern
                  = Some(<<"*", "*", "/", "{">> \o Join(SpecHostList, ",") \o <<"}">>)
        /\ shown = <<>>
        /\ notices = <<>>

\* buildExcludePattern has run on `.a,`, whose second part is empty and whose
\* first part is valid, with two enabled host excludes: the glob holds the two
\* host patterns and not `.a`.
C30_Witness ==
    /\ xpc = "done"
    /\ customExcludePatterns = <<".", "a", ",">>
    /\ SpecValidParts(customExcludePatterns) = {<<".", "a">>}
    /\ respectVSCodeExcludes
    /\ filesExclude = Some(<<[pattern |-> Glob.hostA, enabled |-> TRUE],
                             [pattern |-> Glob.hostStarA, enabled |-> TRUE]>>)
    /\ excludePattern = Some(<<"*", "*", "/", "{", "a", ",", "*", ".", "a", "}">>)

====
